---- MODULE Spec2Model ----
(***************************************************************************)
(* zustand-nibble: a derived ("nibble") store is a getter/setter pair over *)
(* a parent zustand store.  The model keeps the JavaScript heap explicit   *)
(* (objects are reached through references) so that copy-on-write, the     *)
(* identity check of the parent store and reference sharing are decided by *)
(* the model and not assumed.                                              *)
(*                                                                         *)
(* Two iterations of the binder live in src/src/index.ts: the closure      *)
(* based `creator` (lines 27-63) and the class `NibbleStore` (152-208).    *)
(* The parent store (zustand vanilla) and the structural updater (immer's  *)
(* produce) are modelled at the places where the binder calls them.        *)
(***************************************************************************)
EXTENDS Integers, Sequences, FiniteSets, TLC

VARIABLES
    heap,          \* reference -> object: the JavaScript heap
    state,         \* parent store -> reference of its current root (zustand `state`)
    initialState,  \* parent store -> reference of its construction-time root
    listeners,     \* parent store -> sequence of the wrappers registered by subscribe
    production,    \* TRUE when immer runs its production build (fixed per run)
    budget,        \* operations the environment may still issue
    bound,         \* the derived stores that exist
    subscriptions, \* history: the subscribe calls, whether each was unsubscribed
    ctor,          \* history: derived store -> its child value at construction time
    last           \* history: what the last operation did

vars == <<heap, state, initialState, listeners, production, budget, bound,
          subscriptions, ctor, last>>

(***************************************************************************)
(* Bounds of the model.                                                    *)
(***************************************************************************)
MaxVal == 2     \* scalar property values are 1..MaxVal
MaxLen == 3     \* caller-supplied arrays hold at most MaxLen elements
MaxOps == 2     \* operations per behaviour of the store machine
MaxSteps == 4   \* operations per behaviour of the listener machine
MaxDepth == 4   \* nested setState calls of listeners the call stack holds

Vals == 1..MaxVal

\* `undefined`: what a deleted array index reads as (immer turns
\* `delete draft[i]` on an array draft into `draft[i] = undefined`).
Undefined == 0

EmptyMap == [k \in {} |-> 0]

(***************************************************************************)
(* Objects.  arr: Array.isArray; len: its length (0 for plain objects);    *)
(* sc: own enumerable properties holding scalars; ob: own enumerable       *)
(* properties holding references; ord: the own keys that are no index, in  *)
(* the order they were added.  Array elements are the properties           *)
(* "0" .. "len-1".                                                         *)
(***************************************************************************)
IndexKey(i) == ToString(i)

IndexKeys(n) == {IndexKey(i) : i \in 0..(n - 1)}

NamedKeys == {"name", "age"}

\* The indices an array can come to hold: every call adds at most the
\* elements of one passed array.
MaxIndex == (MaxOps + 1) * MaxLen

\* !isNaN(parseInt(prop)): the key is the decimal form of an index.
IsIndexKey(k) == k \in IndexKeys(MaxIndex + 1)

IndexOf(k) == CHOOSE i \in 0..MaxIndex : IndexKey(i) = k

\* The object literal with the properties of sc, written name first:
\* { name: ..., age: ... }.
PlainObject(sc) ==
    [sc |-> sc, arr |-> FALSE, len |-> 0, ob |-> EmptyMap,
     ord |-> SelectSeq(<<"name", "age", "inner">>, LAMBDA k : k \in DOMAIN sc)]

ArrayOf(s) ==
    [sc |-> [k \in IndexKeys(Len(s)) |-> s[IndexOf(k) + 1]],
     arr |-> TRUE, len |-> Len(s), ob |-> EmptyMap, ord |-> <<>>]

\* The orders a literal can list the keys K in.
KeyOrders(K) ==
    {s \in [1..Cardinality(K) -> K] : \A i, j \in DOMAIN s : s[i] = s[j] => i = j}

\* The values a caller can pass to setState: plain objects over the child's
\* keys (partial or full), written in either order, and arrays.
ObjectValues ==
    UNION {{[PlainObject(f) EXCEPT !.ord = s] : s \in KeyOrders(DOMAIN f)} :
           f \in UNION {[K -> Vals] : K \in SUBSET NamedKeys}}

ArrayValues ==
    {ArrayOf(s) : s \in UNION {[1..n -> Vals] : n \in 0..MaxLen}}

NextStates == ObjectValues \cup ArrayValues

\* The values with at most one own property.
SmallNextStates == {n \in NextStates : Cardinality(DOMAIN n.sc) <= 1}

\* `replace?: boolean`
ReplaceFlags == {"unset", "false", "true"}

(***************************************************************************)
(* immer drafts.  A draft of one object: its working copy, whether a trap  *)
(* marked it modified, and whether a trap threw.  A draft that was never   *)
(* modified finalizes to its base object itself (same reference).          *)
(***************************************************************************)
Draft(o) == [copy |-> o, modified |-> FALSE, threw |-> FALSE]

\* The element of a one-element set.
Only(S) == CHOOSE x \in S : TRUE

OwnKeys(o) == DOMAIN o.sc \cup DOMAIN o.ob

\* Own enumerable keys in JavaScript's order (Object.keys, for...in,
\* Object.assign): integer keys ascending, then the string keys in the
\* order they were added.
KeySeq(o) ==
    LET idx == [i \in 1..(MaxIndex + 1) |-> IndexKey(i - 1)]
    IN  SelectSeq(idx, LAMBDA k : k \in OwnKeys(o)) \o o.ord

\* The key order after a [[Set]] of k: a new string key comes last.
KeyAdded(o, k) ==
    IF IsIndexKey(k) \/ k \in OwnKeys(o) THEN o.ord ELSE Append(o.ord, k)

\* A [[Set]] that never moves the length of an array.
DefinePropertyFixedLength(o, k, v) ==
    [o EXCEPT
        !.sc = [j \in DOMAIN o.sc \cup {k} |-> IF j = k THEN v ELSE o.sc[j]],
        !.ob = [j \in DOMAIN o.ob \ {k} |-> o.ob[j]],
        !.ord = KeyAdded(o, k)]

\* [[Set]] of a scalar on a plain copy: an index at or past the end of an
\* array moves its length.
DefineProperty(o, k, v) ==
    [o EXCEPT
        !.sc = [j \in DOMAIN o.sc \cup {k} |-> IF j = k THEN v ELSE o.sc[j]],
        !.ob = [j \in DOMAIN o.ob \ {k} |-> o.ob[j]],
        !.len = IF o.arr /\ IsIndexKey(k) /\ IndexOf(k) >= o.len
                THEN IndexOf(k) + 1 ELSE o.len,
        !.ord = KeyAdded(o, k)]

\* [[Set]] of an object on a plain copy.
DefineReference(o, k, r) ==
    [o EXCEPT
        !.sc = [j \in DOMAIN o.sc \ {k} |-> o.sc[j]],
        !.ob = [j \in DOMAIN o.ob \cup {k} |-> IF j = k THEN r ELSE o.ob[j]],
        !.len = IF o.arr /\ IsIndexKey(k) /\ IndexOf(k) >= o.len
                THEN IndexOf(k) + 1 ELSE o.len,
        !.ord = KeyAdded(o, k)]

RemoveProperty(o, k) ==
    [o EXCEPT
        !.sc = [j \in DOMAIN o.sc \ {k} |-> o.sc[j]],
        !.ob = [j \in DOMAIN o.ob \ {k} |-> o.ob[j]],
        !.ord = SelectSeq(o.ord, LAMBDA j : j # k)]

\* Array.prototype.slice.call(base): the index elements, no other own key.
Slice(o) ==
    [o EXCEPT
        !.sc = [j \in {k \in DOMAIN o.sc : IsIndexKey(k)} |-> o.sc[j]],
        !.ob = [j \in {k \in DOMAIN o.ob : IsIndexKey(k)} |-> o.ob[j]],
        !.ord = <<>>]

\* immer's prepareCopy: the first modifying write makes the working copy,
\* shallowCopy(base), which copies an array with slice and an object with
\* all its own keys.
PrepareCopy(dr) ==
    IF dr.modified \/ ~dr.copy.arr THEN dr.copy ELSE Slice(dr.copy)

\* immer's set trap.  On an array draft the development build rejects any
\* key that is neither an index nor "length"; assigning the value a
\* property already holds leaves the draft unmodified.
DraftSet(dr, k, v) ==
    Only({IF d.threw THEN d
          ELSE IF d.copy.arr /\ ~production /\ ~IsIndexKey(k)
               THEN [d EXCEPT !.threw = TRUE]
          ELSE IF k \in DOMAIN d.copy.sc /\ d.copy.sc[k] = v THEN d
          ELSE Only({[d EXCEPT !.modified = TRUE, !.copy = DefineProperty(c, k, v)] :
                     c \in {PrepareCopy(d)}}) :
          d \in {dr}})

\* The set trap for a value that is an object.
DraftSetReference(dr, k, r) ==
    Only({IF d.threw THEN d
          ELSE IF d.copy.arr /\ ~production /\ ~IsIndexKey(k)
               THEN [d EXCEPT !.threw = TRUE]
          ELSE IF k \in DOMAIN d.copy.ob /\ d.copy.ob[k] = r THEN d
          ELSE Only({[d EXCEPT !.modified = TRUE, !.copy = DefineReference(c, k, r)] :
                     c \in {PrepareCopy(d)}}) :
          d \in {dr}})

\* immer's deleteProperty trap: on an array draft it is `draft[k] =
\* undefined`; on an object draft an existing key is removed and the draft
\* marked modified.
DraftDelete(dr, k) ==
    Only({IF d.threw THEN d
          ELSE IF d.copy.arr THEN DraftSet(d, k, Undefined)
          ELSE IF k \in OwnKeys(d.copy)
               THEN [d EXCEPT !.modified = TRUE, !.copy = RemoveProperty(d.copy, k)]
          ELSE d :
          d \in {dr}})

\* A replace that forgets `childDraft.length = 0`.
DraftKeepLength(dr) == dr

\* `childDraft.length = 0`: the set trap with prop "length".
DraftTruncate(dr) ==
    IF dr.threw \/ dr.copy.len = 0 THEN dr
    ELSE Only({[dr EXCEPT
                  !.modified = TRUE,
                  !.copy = [c EXCEPT
                              !.len = 0,
                              !.sc = [j \in {k \in DOMAIN c.sc : ~IsIndexKey(k)}
                                          |-> c.sc[j]]]] :
               c \in {PrepareCopy(dr)}})

RECURSIVE AssignKeys(_, _, _)
AssignKeys(dr, src, ks) ==
    IF ks = <<>> THEN dr
    ELSE AssignKeys(IF Head(ks) \in DOMAIN src.sc
                    THEN DraftSet(dr, Head(ks), src.sc[Head(ks)])
                    ELSE DraftSetReference(dr, Head(ks), src.ob[Head(ks)]),
                    src, Tail(ks))

\* Object.assign(childDraft, nextState): [[Set]] of every own enumerable
\* key of the source, in key order.  A key that already holds the very
\* value assigned leaves the draft unmodified.
ObjectAssign(dr, src) == AssignKeys(dr, src, KeySeq(src))

\* childDraft.push(...nextState): [[Set]] of the new indices, then of length.
DraftPush(dr, src) ==
    LET n == dr.copy.len
        shifted == [sc |-> [k \in IndexKeys(n + src.len) \ IndexKeys(n)
                                |-> src.sc[IndexKey(IndexOf(k) - n)]],
                    arr |-> TRUE, len |-> src.len, ob |-> EmptyMap, ord |-> <<>>]
    IN  AssignKeys(dr, shifted, KeySeq(shifted))

RECURSIVE DeleteKeys(_, _)
DeleteKeys(dr, ks) ==
    IF ks = <<>> THEN dr
    ELSE Only({DeleteKeys(IF Head(ks) \in OwnKeys(d.copy)
                          THEN DraftDelete(d, Head(ks)) ELSE d, Tail(ks)) :
               d \in {dr}})

\* for (const key in childDraft) if (hasOwnProperty(key)) delete childDraft[key]:
\* the keys are those the draft has when the loop starts, and a key the
\* draft no longer has when its turn comes is passed over.
DeleteOwnKeys(dr) == DeleteKeys(dr, KeySeq(dr.copy))

\* replace ?? true
CoalesceDefaultTrue(replace) == replace # "false"

\* replace ?? false
Coalesce(replace) == replace = "true"

(***************************************************************************)
(* The body of the draft recipe both iterations pass to produce            *)
(* (index.ts 36-51 and 186-201).                                           *)
(***************************************************************************)
MergeOrReplace(childDraft, nextState, replace) ==
    IF Coalesce(replace)
    THEN IF nextState.arr /\ childDraft.copy.arr
         THEN DraftPush(DraftTruncate(childDraft), nextState)
         ELSE ObjectAssign(DeleteOwnKeys(childDraft), nextState)
    ELSE ObjectAssign(childDraft, nextState)

(***************************************************************************)
(* The heap.                                                               *)
(***************************************************************************)
\* A reference no live object has: what `{}`, `[]` or a draft copy gets.
Alloc(h) ==
    CHOOSE n \in 1..(Cardinality(DOMAIN h) + 1) :
        n \notin DOMAIN h /\ \A m \in 1..(n - 1) : m \in DOMAIN h

Put(h, r, o) == [x \in DOMAIN h \cup {r} |-> IF x = r THEN o ELSE h[x]]

\* The references held by the objects of `refs`.
Kids(h, refs) == UNION {{h[r].ob[k] : k \in DOMAIN h[r].ob} : r \in refs}

RECURSIVE Reach(_, _)
Reach(h, refs) ==
    LET more == refs \cup Kids(h, refs)
    IN  IF more = refs THEN refs ELSE Reach(h, more)

\* Garbage collection: only objects reachable from `roots` stay (an unset
\* root holds nothing).
Collect(h, roots) == [r \in Reach(h, roots \ {Undefined}) |-> h[r]]

(***************************************************************************)
(* Parent stores, derived stores, listeners.                               *)
(***************************************************************************)
Parents == {"dad", "mom"}

\* d1 = createChild(dad) by `creator`; m1 = createChild(mom), the same
\* recipe; d2 = a NibbleStore over dad with the default setter, for the
\* sub-object `other`.  These are bound while the parents are constructed.
Stores == {"d1", "d2", "m1"}

\* Stores bound after construction: n1 = nibble(dad)(state => state.child)(),
\* c2 = a NibbleStore over dad's `other` with the immer middleware's set
\* as custom setter, s1 = nibble(dad)(state => state.age)() over a
\* primitive.
LateStores == {"n1", "c2", "s1"}

\* Stores whose getter finds no child: t1 = createTodo(id)(dad) for an id
\* that is in no list, its getter returns undefined; x1 = a NibbleStore
\* over a getter that reads through a property dad does not have, it throws.
TodoStores == {"t1", "x1"}

\* Stores over dad's child bound with an explicit setter that returns its
\* result instead of applying it, nibble(dad)(state => state.child, setter):
\* v1 with updater => produce(dad.getState(), updater), which returns the
\* whole next parent value, v2 with updater => updater, which returns the
\* mutation procedure over a draft.
SetterStores == {"v1", "v2"}

\* Two stores from one nibble over dad: createChild = nibble(dad)(state =>
\* state.child), n1 = createChild(), n2 = createChild().
Twins == {"n1", "n2"}

\* Stores over a derived store, nibble(nibble(dad)(state => state.child)())(g2)():
\* y1 with g2 = child => child.inner, y0 with g2 = child => child.  z1 and
\* z0 are the stores over dad itself with the composed getters,
\* nibble(dad)(state => g2(state.child))().
NestedStores == {"y1", "y0"}

ComposedStores == {"z1", "z0"}

\* k1 = the class-based binder with the default setter over dad's child,
\* the same child d1 and n1 are bound to.
ClassStores == {"k1"}

\* The getters: state => state.child, state => state.other, state => state.age
ChildGetter == <<"child">>

\* state => state.todos.find(todo => todo.id === id)! for an id not there
TodoGetter == <<"todo">>

\* state => state.gone.child, where the state has no `gone`
DeepGetter == <<"gone", "child">>

OtherGetter == <<"other">>

\* child => child.inner and child => child
InnerGetter == <<"inner">>

SelfGetter == <<>>

AgeGetter == <<"age">>

\* The getter's result is a primitive of the parent state.
IsPrimitive(getter) == getter = AgeGetter

\* createStore(api, getter) = creator(getter)(api.setState, api.getState, api):
\* the derived store is the getter and the parent's api, nothing else.
createStore(api, getter) ==
    [api |-> api, getter |-> getter, impl |-> "creator", setter |-> "set"]

\* createNibble(api, getter)(): f absent, so createStore(api, getter)
createNibble(api, getter) == createStore(api, getter)

\* createRecipe(getter)(api): f absent, so createStore(api, getter)
createRecipe(getter, api) == createStore(api, getter)

\* nibble(api)(getter) with an api, nibble()(getter)(api) without
nibble(api, getter) == createNibble(api, getter)

\* new NibbleStore(api, getter, setter)
NibbleStore(api, getter, setter) ==
    [api |-> api, getter |-> getter, impl |-> "NibbleStore", setter |-> setter]

\* A binder that drops the setter it was given.
withSetterDropped(api, getter, setter) == NibbleStore(api, getter, "default")

\* The setter parameter of nibble(api)(getter, setter) and of
\* recipe(api, setter): updater => api.setState(produce(updater)) when the
\* argument is omitted.  The setters that hand back a result and call
\* nothing of the parent store are "value", which returns
\* produce(api.getState(), updater), and "procedure", which returns the
\* updater.
withSetter(api, getter, setter) ==
    NibbleStore(api, getter, IF setter = "omitted" THEN "default" ELSE setter)

\* The parent store itself, as the handle its own creator is given.
ParentStore(api) == [api |-> api, getter |-> <<>>, impl |-> "parent", setter |-> "set"]

\* A StateCreator called as f(set, get, api).  createJoe returns the child
\* value together with its closure birthday, which keeps `set`.
Initialize(f, set, get, api) == [value |-> f.returns, birthday |-> set]

\* A createState that hands the parent's own set, get and api to f.
createStateParentHandles(api, getter, f) ==
    LET store == ParentStore(api)
    IN  [calls |-> <<<<store, store, store>>>>,
         returned |-> Initialize(f, store, store, store)]

\* createState(api, getter, f): f(store.setState, store.getState, store)
\* for store = createStore(api, getter).  `calls` lists the calls of f.
createState(api, getter, f) ==
    LET store == createStore(api, getter)
    IN  [calls |-> <<<<store, store, store>>>>,
         returned |-> Initialize(f, store, store, store)]

\* createRecipe(getter)(api, f) and createNibble(api, getter)(f): f present
createRecipeState(getter, api, f) == createState(api, getter, f)

\* createState(api, getter, setter, f) of the second iteration:
\* new NibbleStore(api, getter, setter).createState(f)
NibbleStoreCreateState(api, getter, setter, f) ==
    LET store == NibbleStore(api, getter, setter)
    IN  [calls |-> <<<<store, store, store>>>>,
         returned |-> Initialize(f, store, store, store)]

\* nibble(store)(getter)() with a derived store as the api:
\* creator(getter)(store.setState, store.getState, store).  Its set and get
\* are the derived store's, whose getter is `outer`.
createStoreOver(store, getter) ==
    [api |-> store.api, getter |-> store.getter \o getter, impl |-> "nested",
     setter |-> "set", outer |-> store.getter, inner |-> getter]

\* How each store was bound.  p0 stands for the parent store dad itself,
\* whose subscribers get the whole state.
Binding(d) ==
    CASE d = "d1" -> createRecipe(ChildGetter, "dad")
      [] d = "m1" -> createRecipe(ChildGetter, "mom")
      [] d = "d2" -> withSetter("dad", OtherGetter, "omitted")
      [] d = "n1" -> nibble("dad", ChildGetter)
      [] d = "n2" -> nibble("dad", ChildGetter)
      [] d = "k1" -> withSetter("dad", ChildGetter, "omitted")
      [] d = "y1" -> createStoreOver(nibble("dad", ChildGetter), InnerGetter)
      [] d = "y0" -> createStoreOver(nibble("dad", ChildGetter), SelfGetter)
      [] d = "z1" -> nibble("dad", ChildGetter \o InnerGetter)
      [] d = "z0" -> nibble("dad", ChildGetter \o SelfGetter)
      [] d = "v1" -> withSetter("dad", ChildGetter, "value")
      [] d = "v2" -> withSetter("dad", ChildGetter, "procedure")
      [] d = "c2" -> withSetter("dad", OtherGetter, "immerSet")
      [] d = "s1" -> nibble("dad", AgeGetter)
      [] d = "t1" -> createRecipe(TodoGetter, "dad")
      [] d = "x1" -> withSetter("dad", DeepGetter, "omitted")
      [] d = "p0" -> ParentStore("dad")

\* A recipe that keeps the first parent it was given.
parentOfShared(d) == "dad"

parentOf(d) == Binding(d).api

implOf(d) == Binding(d).impl

setterOf(d) == Binding(d).setter

AllStores ==
    Stores \cup LateStores \cup TodoStores \cup Twins \cup SetterStores \cup ClassStores
        \cup NestedStores \cup ComposedStores \cup {"p0"}

\* child: createChild(api, f) in the parent's creator, for the binder that
\* store d stands for.
Build(d, f) ==
    IF implOf(d) = "creator"
    THEN createRecipeState(Binding(d).getter, parentOf(d), f)
    ELSE NibbleStoreCreateState(parentOf(d), Binding(d).getter, setterOf(d), f)

ListenerFns == {"l1", "l2"}

\* The listeners of the notification pass: l1 only looks, lw is a listener
\* that writes (see Writes).  Each may be subscribed any number of times.
AllListenerFns == {"l1", "lw"}

\* getter: state => state.child (d1, m1, n1), state => state.other (d2, c2)
GetterPath(d) == Binding(d).getter

\* The getter's result is a primitive: the path ends at a property that
\* holds a scalar.
RECURSIVE Primitive(_, _, _)
Primitive(h, ref, path) ==
    IF path = <<>> \/ ref = Undefined THEN FALSE
    ELSE IF Head(path) \in DOMAIN h[ref].ob
    THEN Primitive(h, h[ref].ob[Head(path)], Tail(path))
    ELSE /\ Tail(path) = <<>>
         /\ Head(path) \in DOMAIN h[ref].sc
         /\ h[ref].sc[Head(path)] # Undefined

\* What the property reads along `path` give: the reference of an object,
\* the scalar a property holds, or undefined for a property that is not
\* there (a property of a scalar included).
RECURSIVE Follow(_, _, _)
Follow(h, ref, path) ==
    IF path = <<>> THEN ref
    ELSE IF ref = Undefined THEN Undefined
    ELSE IF Head(path) \in DOMAIN h[ref].ob
    THEN Follow(h, h[ref].ob[Head(path)], Tail(path))
    ELSE IF Tail(path) = <<>> /\ Head(path) \in DOMAIN h[ref].sc
    THEN h[ref].sc[Head(path)]
    ELSE Undefined

\* The child the getter's result stands for: the object a reference leads
\* to, or the scalar itself.
ChildAt(h, ref, path) ==
    IF Primitive(h, ref, path) THEN Follow(h, ref, path) ELSE h[Follow(h, ref, path)]

\* The getter throws: it reads a property of undefined (a TypeError).
Throws(h, ref, path) ==
    path # <<>> /\ Follow(h, ref, SubSeq(path, 1, Len(path) - 1)) = Undefined

\* getter(root): the reference of the child inside `root`.
Getter(d, h, root) ==
    IF implOf(d) = "nested"
    THEN \* getter(get()) with get the derived store's getState
         Follow(h, Follow(h, root, Binding(d).outer), Binding(d).inner)
    ELSE Follow(h, root, GetterPath(d))

(***************************************************************************)
(* Updaters.  A partial is a literal value, the function                   *)
(* `state => ({ age: state.age + 1 })` (createJoe's birthday), or the      *)
(* function `state => state`, which returns the very object it is given    *)
(* (`same`).                                                               *)
(***************************************************************************)
Literal(n) == [value |-> n, fn |-> FALSE, same |-> FALSE]

Birthday == [value |-> PlainObject(EmptyMap), fn |-> TRUE, same |-> FALSE]

Identity == [value |-> PlainObject(EmptyMap), fn |-> TRUE, same |-> TRUE]

\* The child values birthday is applied to: those with a number as age
\* that the bounded scalars can still increment.
CanResolve(partial, child) ==
    (partial.fn /\ ~partial.same) =>
        ("age" \in DOMAIN child.sc /\ child.sc["age"] \in 0..(MaxVal - 1))

\* isFunction(partial) ? partial(child) : partial, for a child that is a
\* plain value (not a draft).
Resolve(partial, child) ==
    IF partial.fn /\ partial.same THEN child
    ELSE IF partial.fn THEN PlainObject([k \in {"age"} |-> child.sc["age"] + 1])
    ELSE partial.value

(***************************************************************************)
(* immer's produce, curried as the binder uses it: produce(recipe)(base).  *)
(* The recipe works on the draft of getter(draft); when it modified the    *)
(* draft, the objects on the path from the root to the child are copied,   *)
(* everything else is shared; when it did not, the base itself is          *)
(* returned; when it threw, produce throws.                                *)
(***************************************************************************)
\* A copy of the root that shares the child and writes into it.
RECURSIVE CopyInPlace(_, _, _, _)
CopyInPlace(h, ref, path, leaf) ==
    IF path = <<>>
    THEN [heap |-> Put(h, ref, leaf), ref |-> ref]
    ELSE LET sub == CopyInPlace(h, h[ref].ob[Head(path)], Tail(path), leaf)
             r == Alloc(sub.heap)
         IN  [heap |-> Put(sub.heap, r, h[ref]), ref |-> r]

\* A deep copy: the objects beside the path are cloned as well.
RECURSIVE CloneKids(_, _, _)
CloneKids(h, obj, keys) ==
    IF keys = {} THEN [heap |-> h, obj |-> obj]
    ELSE LET k == CHOOSE x \in keys : TRUE
             r == Alloc(h)
         IN  CloneKids(Put(h, r, h[obj.ob[k]]), [obj EXCEPT !.ob[k] = r], keys \ {k})

RECURSIVE CopyDeep(_, _, _, _)
CopyDeep(h, ref, path, leaf) ==
    IF path = <<>>
    THEN LET r == Alloc(h) IN [heap |-> Put(h, r, leaf), ref |-> r]
    ELSE LET sub == CopyDeep(h, h[ref].ob[Head(path)], Tail(path), leaf)
             cloned == CloneKids(sub.heap, [h[ref] EXCEPT !.ob[Head(path)] = sub.ref],
                                 DOMAIN h[ref].ob \ {Head(path)})
             r == Alloc(cloned.heap)
         IN  [heap |-> Put(cloned.heap, r, cloned.obj), ref |-> r]

RECURSIVE CopyOnWrite(_, _, _, _)
CopyOnWrite(h, ref, path, leaf) ==
    IF path = <<>>
    THEN LET r == Alloc(h) IN [heap |-> Put(h, r, leaf), ref |-> r]
    ELSE LET sub == CopyOnWrite(h, h[ref].ob[Head(path)], Tail(path), leaf)
             r == Alloc(sub.heap)
             copy == [h[ref] EXCEPT !.ob[Head(path)] = sub.ref]
         IN  [heap |-> Put(sub.heap, r, copy), ref |-> r]

\* The recipe's body when nextState is the child draft itself, which is
\* what state => state returns inside the recipe: what is pushed or
\* assigned is read from the draft after it was truncated or its keys were
\* deleted.  Assigning a draft its own properties sets each to the value it
\* holds.
MergeOrReplaceSelf(childDraft, replace) ==
    IF Coalesce(replace)
    THEN IF childDraft.copy.arr
         THEN DraftTruncate(childDraft)
         ELSE Only({ObjectAssign(cleared, cleared.copy) :
                    cleared \in {DeleteOwnKeys(childDraft)}})
    ELSE ObjectAssign(childDraft, childDraft.copy)

\* The recipe both iterations hand to produce: the updater, when it is
\* still a function, is resolved against the child draft.
Recipe(childDraft, partial, replace) ==
    IF partial.fn /\ partial.same
    THEN MergeOrReplaceSelf(childDraft, replace)
    ELSE MergeOrReplace(childDraft, Resolve(partial, childDraft.copy), replace)

produce(h, base, path, partial, replace) ==
    IF Follow(h, base, path) = Undefined
    THEN \* getter(draft) threw, or it returned undefined and the updater
         \* or Object.assign(undefined, nextState) threw
         [threw |-> TRUE, heap |-> h, root |-> base]
    ELSE IF Primitive(h, base, path)
    THEN \* Object.assign(1, nextState) writes to a wrapper object that is
         \* dropped, and a primitive has no key to delete
         [threw |-> FALSE, heap |-> h, root |-> base]
    ELSE Only({IF done.threw THEN [threw |-> TRUE, heap |-> h, root |-> base]
               ELSE IF ~done.modified THEN [threw |-> FALSE, heap |-> h, root |-> base]
               ELSE Only({[threw |-> FALSE, heap |-> cow.heap, root |-> cow.ref] :
                          cow \in {CopyOnWrite(h, base, path, done.copy)}}) :
               done \in {Recipe(Draft(h[Follow(h, base, path)]), partial, replace)}})

(***************************************************************************)
(* The parent store (zustand vanilla).                                     *)
(***************************************************************************)
\* Object.assign({}, a, b): the keys of a in a's order, then those only b
\* has in b's.
ObjectMerge(a, b) ==
    LET sck == (DOMAIN a.sc \ DOMAIN b.ob) \cup DOMAIN b.sc
        obk == (DOMAIN a.ob \ DOMAIN b.sc) \cup DOMAIN b.ob
    IN  [sc |-> [k \in sck |-> IF k \in DOMAIN b.sc THEN b.sc[k] ELSE a.sc[k]],
         arr |-> FALSE, len |-> 0,
         ob |-> [k \in obk |-> IF k \in DOMAIN b.ob THEN b.ob[k] ELSE a.ob[k]],
         ord |-> a.ord \o SelectSeq(b.ord, LAMBDA k : k \notin OwnKeys(a))]

\* A wrapper that calls its listener only when the projection changed.
NotifyChangedOnly(h, ls, root, previous) ==
    SelectSeq([i \in 1..Len(ls) |->
                  [fn |-> ls[i].fn, store |-> ls[i].store, id |-> ls[i].id,
                   new |-> Getter(ls[i].store, h, root),
                   prev |-> Getter(ls[i].store, h, previous)]],
              LAMBDA e : e.new # e.prev)

\* listeners.forEach(listener => listener(state, previousState)), each
\* listener being the wrapper of subscribe (index.ts 56-57, 176-179).  The
\* call of a listener is recorded with the wrapper that made it.
Notify(h, ls, root, previous) ==
    [i \in 1..Len(ls) |->
        [fn |-> ls[i].fn, store |-> ls[i].store, id |-> ls[i].id,
         new |-> Getter(ls[i].store, h, root),
         prev |-> Getter(ls[i].store, h, previous)]]

\* What a listener does when it is called: lw calls setState({ name: 2 })
\* on the store it was subscribed through, the others only look.
Writes(fn) == fn = "lw"

WriterValue == PlainObject([k \in {"name"} |-> 2])

\* lb is the listener child => { if (child.age === 1) store.birthday() }:
\* it calls setState(state => ({ age: state.age + 1 })) on the store it was
\* subscribed through, once, when it is handed a child of age 1.
Increments(h, root, w) ==
    /\ w.fn = "lb"
    /\ Getter(w.store, h, root) # Undefined
    /\ ~Primitive(h, root, GetterPath(w.store))
    /\ "age" \in DOMAIN h[Getter(w.store, h, root)].sc
    /\ h[Getter(w.store, h, root)].sc["age"] = 1

\* The result of a call that did nothing.
Idle(h, root) ==
    [threw |-> FALSE, heap |-> h, root |-> root, rounds |-> 0,
     notified |-> <<>>, trace |-> <<>>]

\* What lw hands to the parent's setState: its write is
\* store.setState({ name: 2 }), a literal merge.  Through a derived store
\* that is produce(recipe) applied to the parent's state; through the
\* parent store itself it is the object { name: 2 }, which is never the
\* current state.  The setter updater => produce(api.getState(), updater)
\* runs the recipe, which may throw, and what it returns is dropped; the
\* setter that returns the updater runs nothing.
WriterProduce(h, root, w) ==
    IF ~(Writes(w.fn) \/ Increments(h, root, w))
    THEN [threw |-> FALSE, heap |-> h, root |-> root]
    ELSE IF implOf(w.store) = "NibbleStore" /\ setterOf(w.store) = "procedure"
    THEN [threw |-> FALSE, heap |-> h, root |-> root]
    ELSE IF implOf(w.store) = "NibbleStore" /\ setterOf(w.store) = "value"
    THEN [threw |-> produce(h, root, GetterPath(w.store),
                            IF Writes(w.fn) THEN Literal(WriterValue) ELSE Birthday,
                            "unset").threw,
          heap |-> h, root |-> root]
    ELSE IF Writes(w.fn) /\ implOf(w.store) = "parent"
    THEN [threw |-> FALSE, heap |-> Put(h, Alloc(h), WriterValue), root |-> Alloc(h)]
    ELSE IF Writes(w.fn)
    THEN produce(h, root, GetterPath(w.store), Literal(WriterValue), "unset")
    ELSE produce(h, root, GetterPath(w.store),
                 IF implOf(w.store) \in {"creator", "nested"}
                 THEN Literal(Resolve(Birthday, h[Getter(w.store, h, root)]))
                 ELSE Birthday, "unset")

RECURSIVE forEach(_, _, _, _, _, _)

\* What the setState call of listener w runs before the parent applies
\* anything, in the order it is called: the updater (resolved first by
\* creator, inside the recipe by the NibbleStore), the setter, the
\* produce a value setter runs itself, the setState of the store a nested
\* store was made over with the producer it resolves, and the parent's
\* setState, which a producer that threw never reaches.  A listener that
\* only looks runs nothing.
WriterCalls(h, root, w) ==
    LET updater == IF Increments(h, root, w) THEN <<"updater">> ELSE <<>>
    IN  IF ~(Writes(w.fn) \/ Increments(h, root, w)) THEN <<>>
        ELSE IF implOf(w.store) = "NibbleStore"
        THEN <<"setter:" \o setterOf(w.store)>>
                \o (IF setterOf(w.store) = "procedure" THEN <<>>
                    ELSE IF setterOf(w.store) = "value" THEN <<"produce">> \o updater
                    ELSE <<"api.setState">> \o updater)
        ELSE IF implOf(w.store) = "nested"
        THEN updater \o <<"store.setState", "produce">>
                \o (IF WriterProduce(h, root, w).threw THEN <<>> ELSE <<"api.setState">>)
        ELSE IF implOf(w.store) = "parent" THEN <<"api.setState">>
        ELSE updater \o <<"api.setState">>

\* The parent's setState for the write of listener w: a write that changes
\* nothing or throws ends there; otherwise the state is replaced and the
\* listeners run from the first one again, inside the outer pass.  `depth`
\* counts the setState calls of listeners this one is nested in; when the
\* call stack holds no further one, the state is replaced and the listener
\* pass ends in a RangeError (Maximum call stack size exceeded).
WriterApply(h, root, ls, w, written, depth) ==
    IF written.threw
    THEN [Idle(h, root) EXCEPT !.threw = TRUE, !.trace = WriterCalls(h, root, w)]
    ELSE IF written.root = root
    THEN [Idle(h, root) EXCEPT !.trace = WriterCalls(h, root, w)]
    ELSE Only({IF depth >= MaxDepth
               THEN [threw |-> TRUE, heap |-> merged, root |-> Alloc(written.heap),
                     rounds |-> 1, notified |-> <<>>,
                     trace |-> WriterCalls(h, root, w) \o <<"applied">>]
               ELSE Only({[pass EXCEPT !.rounds = @ + 1,
                                       !.trace = WriterCalls(h, root, w)
                                                    \o <<"applied">> \o @] :
                          pass \in {forEach(merged, Alloc(written.heap), ls, root, 1,
                                            depth + 1)}}) :
               merged \in {Put(written.heap, Alloc(written.heap),
                               ObjectMerge(h[root], written.heap[written.root]))}})

\* The pass after the i-th listener, which was called (`called`) and wrote
\* (`wrote`).
Continue(ls, previous, i, called, wrote, depth) ==
    IF wrote.threw THEN [wrote EXCEPT !.notified = called \o @]
    ELSE Only({[threw |-> rest.threw, heap |-> rest.heap, root |-> rest.root,
                rounds |-> wrote.rounds + rest.rounds,
                notified |-> called \o wrote.notified \o rest.notified,
                trace |-> wrote.trace \o rest.trace] :
               rest \in {forEach(wrote.heap, wrote.root, ls, previous, i + 1, depth)}})

\* listeners.forEach(listener => listener(state, previousState)) from the
\* i-th listener on.  `state` is the store's variable, read when each
\* listener is called: a listener that wrote changes what the listeners
\* after it receive as new state, not what they receive as previous one.
forEach(h, root, ls, previous, i, depth) ==
    IF i > Len(ls) THEN Idle(h, root)
    ELSE IF Throws(h, root, GetterPath(ls[i].store)) \/ Throws(h, previous, GetterPath(ls[i].store))
    THEN [Idle(h, root) EXCEPT !.threw = TRUE]
    ELSE Only({Continue(ls, previous, i, Notify(h, <<ls[i]>>, root, previous), wrote, depth) :
               wrote \in {WriterApply(h, root, ls, ls[i], written, depth) :
                          written \in {WriterProduce(h, root, ls[i])}}})

\* api.setState(partial) once partial(state) is known to be `nextState`:
\* nothing happens when it is the current state itself; otherwise the new
\* state is a fresh object merging both, and the listeners run once each.
apiSetState(h, current, nextState, ls) ==
    IF nextState = current THEN Idle(h, current)
    ELSE LET r == Alloc(h)
             h2 == Put(h, r, ObjectMerge(h[current], h[nextState]))
             pass == forEach(h2, r, ls, current, 1, 1)
         IN  [pass EXCEPT !.rounds = @ + 1, !.trace = <<"applied">> \o @]

(***************************************************************************)
(* The derived store.                                                      *)
(***************************************************************************)
\* A derived store that answers from the state it was bound over.
staleGetState(d) == Getter(d, heap, initialState[parentOf(d)])

\* getState: () => getter(get())
getState(d) == Getter(d, heap, state[parentOf(d)])

\* getInitialState: () => getter(api.getInitialState())
getInitialState(d) == Getter(d, heap, initialState[parentOf(d)])

\* The updater, when the partial is one, is called with `child`.
UpdaterCalls(partial, child) == IF partial.fn THEN <<child>> ELSE <<>>

\* A setState that catches what the getter, the updater or the recipe throw.
ThrownCaught(h, current, issued, ran) ==
    [threw |-> FALSE, issued |-> issued, heap |-> h, root |-> current,
     rounds |-> 0, notified |-> <<>>, trace |-> ran, calls |-> <<>>]

\* The outcome of a setState that threw before anything reached the
\* parent's state: the exception leaves setState, nothing is caught.
Thrown(h, current, issued, ran) ==
    [threw |-> TRUE, issued |-> issued, heap |-> h, root |-> current,
     rounds |-> 0, notified |-> <<>>, trace |-> ran, calls |-> <<>>]

\* api.setState(produce(recipe)): `set(produce(...))` of creator and the
\* default setter of the NibbleStore.  One update is issued to the parent
\* store, which runs the recipe (and in it the updater, when the partial is
\* still one) on the draft of its state; a recipe that throws makes the
\* call throw with nothing changed.
setWithProduce(h, current, path, ls, partial, replace) ==
    LET ran == <<"api.setState">> \o (IF partial.fn THEN <<"updater">> ELSE <<>>)
    IN  IF Follow(h, current, path) = Undefined /\ partial.fn /\ ~Throws(h, current, path)
        THEN \* the updater was called with undefined, and it or
             \* Object.assign(undefined, nextState) threw
             [Thrown(h, current, 1, ran) EXCEPT !.calls = <<Undefined>>]
        ELSE IF Follow(h, current, path) = Undefined
        THEN Thrown(h, current, 1, <<"api.setState">>)
        ELSE Only({IF produced.threw
                   THEN [threw |-> TRUE, issued |-> 1, heap |-> h, root |-> current,
                         rounds |-> 0, notified |-> <<>>, trace |-> ran, calls |-> calls]
                   ELSE Only({[threw |-> applied.threw, issued |-> 1, heap |-> applied.heap,
                               root |-> applied.root, rounds |-> applied.rounds,
                               notified |-> applied.notified,
                               trace |-> ran \o applied.trace, calls |-> calls] :
                              applied \in {apiSetState(produced.heap, current,
                                                       produced.root, ls)}}) :
                   produced \in {produce(h, current, path, partial, replace)},
                   calls \in {UpdaterCalls(partial, ChildAt(h, current, path))}})

\* A setState that resolves the updater against the child the store was
\* created with.
creatorSetStateStale(h, current, d, ls, partial, replace) ==
    LET child == h[Getter(d, h, initialState[parentOf(d)])]
        nextState == Resolve(partial, child)
        set == setWithProduce(h, current, GetterPath(d), ls, Literal(nextState), replace)
    IN  [set EXCEPT !.trace = (IF partial.fn THEN <<"updater">> ELSE <<>>) \o @,
                    !.calls = UpdaterCalls(partial, child)]

\* creator(getter).setState: the updater is resolved against getter(get())
\* before the parent update.
creatorSetState(h, current, d, ls, partial, replace) ==
    LET child == ChildAt(h, current, GetterPath(d))
        nextState == IF Primitive(h, current, GetterPath(d))
                     THEN \* partial(1) reads (1).age, which is undefined, or
                          \* returns 1, which has no property to assign
                          IF partial.fn THEN PlainObject(EmptyMap) ELSE partial.value
                     ELSE Resolve(partial, child)
        set == setWithProduce(h, current, GetterPath(d), ls, Literal(nextState), replace)
    IN  IF partial.fn /\ Throws(h, current, GetterPath(d))
        THEN \* getter(get()) threw before the updater was called
             Thrown(h, current, 0, <<>>)
        ELSE IF partial.fn /\ ~partial.same /\ Getter(d, h, current) = Undefined
        THEN \* partial(undefined) was called and threw
             [Thrown(h, current, 0, <<"updater">>) EXCEPT !.calls = <<Undefined>>]
        ELSE IF partial.fn /\ Getter(d, h, current) = Undefined
        THEN \* partial(undefined) returned undefined; the recipe finds no
             \* child draft to assign to
             [Thrown(h, current, 1, <<"updater", "api.setState">>)
                 EXCEPT !.calls = <<Undefined>>]
        ELSE [set EXCEPT !.trace = (IF partial.fn THEN <<"updater">> ELSE <<>>) \o @,
                         !.calls = UpdaterCalls(partial, child)]

\* The setter updater => produce(api.getState(), updater): the recipe runs
\* on a draft of the parent's state and the setter returns the state that
\* yields.  Nothing is applied to the parent store.
returnValue(h, current, path, partial, replace) ==
    LET ran == <<"produce">> \o (IF partial.fn THEN <<"updater">> ELSE <<>>)
    IN  IF Follow(h, current, path) = Undefined /\ partial.fn /\ ~Throws(h, current, path)
        THEN [Thrown(h, current, 0, ran) EXCEPT !.calls = <<Undefined>>]
        ELSE IF Follow(h, current, path) = Undefined
        THEN Thrown(h, current, 0, <<"produce">>)
        ELSE Only({[threw |-> produced.threw, issued |-> 0, heap |-> h, root |-> current,
                    rounds |-> 0, notified |-> <<>>, trace |-> ran, calls |-> calls] :
                   produced \in {produce(h, current, path, partial, replace)},
                   calls \in {UpdaterCalls(partial, ChildAt(h, current, path))}})

\* this.setter(updater), a call whose result NibbleStore.setState drops
\* (index.ts 183; Setter<T> returns void).  The default setter,
\* updater => api.setState(produce(updater)), and the set of the immer
\* middleware call the parent's setState with produce(updater); a setter
\* that returns the next parent value or the updater itself has applied
\* nothing when it returns, and nothing is done with what it returned.
callSetter(setter, h, current, path, ls, partial, replace) ==
    Only({[set EXCEPT !.trace = <<"setter:" \o setter>> \o @] :
          set \in {IF setter = "value"
                   THEN returnValue(h, current, path, partial, replace)
                   ELSE IF setter = "procedure"
                   THEN [threw |-> FALSE, issued |-> 0, heap |-> h, root |-> current,
                         rounds |-> 0, notified |-> <<>>, trace |-> <<>>, calls |-> <<>>]
                   ELSE setWithProduce(h, current, path, ls, partial, replace)}})

\* NibbleStore.setState: the updater is resolved against the child draft
\* inside the setter's recipe.
NibbleStoreSetState(h, current, d, ls, partial, replace) ==
    callSetter(setterOf(d), h, current, GetterPath(d), ls, partial, replace)

\* The parent's setState for the merged intermediate child: the update and
\* the notification pass.
nestedApply(h, current, ls, cow, ran, calls) ==
    Only({[threw |-> applied.threw, issued |-> 1, heap |-> applied.heap,
           root |-> applied.root, rounds |-> applied.rounds,
           notified |-> applied.notified,
           trace |-> ran \o <<"api.setState">> \o applied.trace,
           calls |-> calls] :
          applied \in {apiSetState(cow.heap, current, cow.ref, ls)}})

\* store.setState's own set(produce(draft => Object.assign(getter(draft),
\* nextState))), nextState being what produce(recipe) returned for the
\* intermediate child.
nestedMerge(h, current, outer, ls, produced, assigned, ran, calls) ==
    IF assigned.threw
    THEN [Thrown(h, current, 1, ran \o <<"api.setState">>) EXCEPT !.calls = calls]
    ELSE IF ~assigned.modified
    THEN [threw |-> FALSE, issued |-> 1, heap |-> h, root |-> current, rounds |-> 0,
          notified |-> <<>>, trace |-> ran \o <<"api.setState">>, calls |-> calls]
    ELSE Only({nestedApply(h, current, ls, cow, ran, calls) :
               cow \in {CopyOnWrite(produced.heap, current, outer, assigned.copy)}})

\* store.setState(produce(recipe)): the function is resolved against the
\* store's own child, the intermediate one at `mid`.
nestedResolve(h, current, outer, mid, ls, produced, ran, calls) ==
    IF produced.threw
    THEN [Thrown(h, current, 0, ran) EXCEPT !.calls = calls]
    ELSE Only({nestedMerge(h, current, outer, ls, produced, assigned, ran, calls) :
               assigned \in {ObjectAssign(Draft(produced.heap[mid]),
                                          produced.heap[produced.root])}})

\* setState of a store made by creator(getter)(store.setState,
\* store.getState, store) for a derived store `store`: the updater is
\* resolved against getter(store.getState()), and set(produce(recipe)) is
\* store.setState(produce(recipe)) with no replace flag.  That call resolves
\* produce(recipe) as an updater against the store's own child, the
\* intermediate one, and merges what it returns into that child, in the
\* parent's state.
nestedSetState(h, current, d, ls, partial, replace) ==
    LET outer == Binding(d).outer
        inner == Binding(d).inner
        ran == (IF partial.fn THEN <<"updater">> ELSE <<>>) \o <<"store.setState", "produce">>
    IN  Only({IF partial.fn /\ mid = Undefined /\ inner # <<>>
              THEN \* getter(get()) reads a property of undefined
                   Thrown(h, current, 0, <<>>)
              ELSE IF partial.fn /\ ~partial.same /\ Follow(h, mid, inner) = Undefined
              THEN \* partial(undefined) was called and threw
                   [Thrown(h, current, 0, <<"updater">>) EXCEPT !.calls = <<Undefined>>]
              ELSE IF Follow(h, mid, inner) = Undefined
              THEN \* the recipe ran in store.setState and found no child
                   \* draft to assign to
                   [Thrown(h, current, 0, ran)
                       EXCEPT !.calls = IF partial.fn THEN <<Undefined>> ELSE <<>>]
              ELSE Only({Only({nestedResolve(h, current, outer, mid, ls, produced, ran,
                                             UpdaterCalls(partial, child)) :
                               produced \in {produce(h, mid, inner,
                                                     Literal(Resolve(partial, child)),
                                                     replace)}}) :
                         child \in {h[Follow(h, mid, inner)]}}) :
              mid \in {Follow(h, current, outer)}})

setState(h, current, d, ls, partial, replace) ==
    IF implOf(d) = "creator"
    THEN creatorSetState(h, current, d, ls, partial, replace)
    ELSE IF implOf(d) = "nested"
    THEN nestedSetState(h, current, d, ls, partial, replace)
    ELSE NibbleStoreSetState(h, current, d, ls, partial, replace)

(***************************************************************************)
(* Operations.                                                             *)
(***************************************************************************)
NoOp ==
    [op |-> "none", store |-> "none", parent |-> "none", partial |-> Literal(PlainObject(EmptyMap)),
     replace |-> "unset", pre |-> 0, before |-> EmptyMap, issued |-> 0, rounds |-> 0, threw |-> FALSE,
     notified |-> <<>>, trace |-> <<>>, calls |-> <<>>]

Roots(st, ini, l) ==
    {st[p] : p \in Parents} \cup {ini[p] : p \in Parents} \cup ({l.pre} \ {0})

\* derivedStore.setState(partial, replace).  `record` says whether the
\* history keeps the arguments of the call.
SetState(d, partial, replace, record) ==
    /\ budget > 0
    /\ d \in bound
    /\ IF Getter(d, heap, state[parentOf(d)]) = Undefined THEN TRUE
       ELSE IF Primitive(heap, state[parentOf(d)], GetterPath(d)) THEN TRUE
       ELSE CanResolve(partial, heap[Getter(d, heap, state[parentOf(d)])])
    /\ \E r \in {setState(heap, state[parentOf(d)], d, listeners[parentOf(d)], partial, replace)} :
        \E hp \in {r.heap} :
        LET p == parentOf(d)
            l == [op |-> "setState", store |-> d, parent |-> p,
                  partial |-> IF record THEN partial ELSE NoOp.partial,
                  replace |-> IF record THEN replace ELSE NoOp.replace,
                  pre |-> state[p], before |-> Collect(heap, {state[p]}),
                  issued |-> r.issued,
                  rounds |-> r.rounds, threw |-> r.threw, notified |-> r.notified,
                  trace |-> r.trace, calls |-> r.calls]
        IN  /\ state' = [state EXCEPT ![p] = r.root]
            /\ last' = l
            /\ heap' = Collect(hp, Roots(state', initialState, l))
            /\ budget' = budget - 1
            /\ UNCHANGED <<initialState, listeners, production, bound, subscriptions, ctor>>

\* The parent's own action: birthday: () => set(state => ({ age: state.age + 1 }))
ParentBirthday(p) ==
    /\ budget > 0
    /\ heap[state[p]].sc["age"] < MaxVal
    /\ \E lit \in {Alloc(heap)} :
        \E r \in {apiSetState(Put(heap, lit, PlainObject([k \in {"age"} |->
                                    heap[state[p]].sc["age"] + 1])),
                              state[p], lit, listeners[p])} :
        \E hp \in {r.heap} :
        LET l == [NoOp EXCEPT !.op = "parentSet", !.parent = p, !.pre = state[p],
                              !.before = Collect(heap, {state[p]}),
                              !.issued = 1, !.rounds = r.rounds, !.notified = r.notified,
                              !.threw = r.threw, !.trace = <<"api.setState">> \o r.trace]
        IN  /\ state' = [state EXCEPT ![p] = r.root]
            /\ last' = l
            /\ heap' = Collect(hp, Roots(state', initialState, l))
            /\ budget' = budget - 1
            /\ UNCHANGED <<initialState, listeners, production, bound, subscriptions, ctor>>

\* child.birthday(), the closure createJoe returned when the child of
\* store d was built: () => set(state => ({ age: state.age + 1 })) with the
\* set it was given, which is the setState of the store t.
ChildBirthday(d) ==
    /\ budget > 0
    /\ d \in bound
    /\ \E t \in AllStores :
        /\ Binding(t) = Build(d, [returns |-> ctor[d]]).returned.birthday
        /\ CanResolve(Birthday, heap[Getter(t, heap, state[parentOf(t)])])
        /\ \E r \in {setState(heap, state[parentOf(t)], t, listeners[parentOf(t)], Birthday, "unset")} :
            \E hp \in {r.heap} :
            LET p == parentOf(t)
                l == [NoOp EXCEPT !.op = "closure", !.store = d, !.parent = p,
                                  !.partial = Birthday, !.pre = state[p],
                                  !.before = Collect(heap, {state[p]}),
                                  !.issued = r.issued, !.rounds = r.rounds,
                                  !.threw = r.threw, !.notified = r.notified,
                                  !.trace = r.trace, !.calls = r.calls]
            IN  /\ state' = [state EXCEPT ![p] = r.root]
                /\ last' = l
                /\ heap' = Collect(hp, Roots(state', initialState, l))
                /\ budget' = budget - 1
                /\ UNCHANGED <<initialState, listeners, production, bound, subscriptions, ctor>>

\* derivedStore.getState() called: it returns getter(get()) or throws what
\* the getter throws.
GetState(d) ==
    /\ budget > 0
    /\ d \in bound
    /\ last' = [NoOp EXCEPT !.op = "getState", !.store = d, !.parent = parentOf(d),
                            !.pre = state[parentOf(d)],
                            !.trace = <<"get", "getter">>,
                            !.threw = Throws(heap, state[parentOf(d)], GetterPath(d))]
    /\ heap' = Collect(heap, Roots(state, initialState, last'))
    /\ budget' = budget - 1
    /\ UNCHANGED <<state, initialState, listeners, production, bound, subscriptions, ctor>>

Subscribed(l) == \E p \in Parents : \E i \in 1..Len(listeners[p]) : listeners[p][i].fn = l

\* The function a subscribe call hands to the parent's subscribe.  A
\* derived store makes a new wrapper in every call, (state, prevState) =>
\* listener(getter(state), getter(prevState)): n, the number of the call,
\* tells the wrappers of one listener apart.  The parent store itself is
\* handed the listener as it is.
Wrapper(d, l, n) ==
    [fn |-> l, store |-> d, id |-> IF implOf(d) = "parent" THEN 0 ELSE n]

\* The wrapper of the i-th subscribe call.
WrapperOf(i) ==
    [fn |-> subscriptions[i].fn, store |-> subscriptions[i].store,
     id |-> subscriptions[i].id]

\* api.subscribe(wrapper): listeners.add(wrapper).  The listeners are a
\* Set, so a function that is in it already is not added again.
subscribe(ls, w) ==
    IF \E i \in 1..Len(ls) : ls[i] = w THEN ls ELSE Append(ls, w)

\* derivedStore.subscribe(listener): the wrapper joins the parent's
\* listeners, whether or not the listener was subscribed before, and the
\* call returns the parent's unsubscribe for that wrapper.
Subscribe(d, l) ==
    /\ budget > 0
    /\ d \in bound \cup {"p0"}
    /\ \E w \in {Wrapper(d, l, Len(subscriptions) + 1)} :
        /\ listeners' = [listeners EXCEPT ![parentOf(d)] = subscribe(@, w)]
        /\ subscriptions' = Append(subscriptions,
                                   [fn |-> w.fn, store |-> w.store, id |-> w.id,
                                    state |-> "active"])
    /\ last' = [NoOp EXCEPT !.op = "subscribe", !.store = d, !.parent = parentOf(d)]
    /\ heap' = Collect(heap, Roots(state, initialState, NoOp))
    /\ budget' = budget - 1
    /\ UNCHANGED <<state, initialState, production, bound, ctor>>

\* An unsubscribe that removes every wrapper of the listener.
unsubscribeListener(ls, w) == SelectSeq(ls, LAMBDA x : x.fn # w.fn)

\* The function subscribe returns: api.subscribe's own unsubscribe,
\* () => listeners.delete(wrapper) for the wrapper of that call.
unsubscribe(ls, w) == SelectSeq(ls, LAMBDA x : x # w)

\* Calling the function that the i-th subscribe call returned, for the
\* first time or again.
Unsubscribe(i) ==
    /\ budget > 0
    /\ i \in 1..Len(subscriptions)
    /\ listeners' = [listeners EXCEPT ![parentOf(subscriptions[i].store)] =
                                         unsubscribe(@, WrapperOf(i))]
    /\ subscriptions' = [subscriptions EXCEPT ![i].state = "cancelled"]
    /\ last' = [NoOp EXCEPT !.op = "unsubscribe", !.store = subscriptions[i].store,
                            !.parent = parentOf(subscriptions[i].store)]
    /\ heap' = Collect(heap, Roots(state, initialState, NoOp))
    /\ budget' = budget - 1
    /\ UNCHANGED <<state, initialState, production, bound, ctor>>

\* A destroy that does what the parent's destroy does: listeners.clear().
destroyClears(d, ls) == [threw |-> FALSE, listeners |-> <<>>]

\* destroy: () => { throw new Error(...) } on a store made by creator; a
\* NibbleStore has no destroy at all, so calling it is a TypeError.
destroy(d, ls) == [threw |-> TRUE, listeners |-> ls]

\* derivedStore.destroy()
Destroy(d) ==
    /\ budget > 0
    /\ d \in bound
    /\ LET r == destroy(d, listeners[parentOf(d)])
       IN  /\ listeners' = [listeners EXCEPT ![parentOf(d)] = r.listeners]
           /\ last' = [NoOp EXCEPT !.op = "destroy", !.store = d, !.parent = parentOf(d),
                                   !.threw = r.threw]
    /\ heap' = Collect(heap, Roots(state, initialState, NoOp))
    /\ budget' = budget - 1
    /\ UNCHANGED <<state, initialState, production, bound, subscriptions, ctor>>

\* A bind that takes a first snapshot getter(get()) of the child.
BindEager(d) ==
    /\ budget > 0
    /\ d \in (LateStores \cup TodoStores) \ bound
    /\ bound' = bound \cup {d}
    /\ last' = [NoOp EXCEPT !.op = "bind", !.store = d, !.parent = parentOf(d),
                            !.trace = <<"get", "getter">>,
                            !.threw = Throws(heap, state[parentOf(d)], GetterPath(d))]
    /\ heap' = Collect(heap, Roots(state, initialState, NoOp))
    /\ budget' = budget - 1
    /\ UNCHANGED <<state, initialState, listeners, production, subscriptions, ctor>>

\* A store bound after the parent exists (childStore =
\* createChild(parentStore)).  The first iteration makes it with
\* nibble(api)(getter)() or recipe(api): f is absent, createStore is all
\* that runs.  The second iteration has no test for f, its binder always
\* calls createState(api, getter, setter, f), so the store is what
\* nibble(api)(getter, setter)(f) returns for f = (set, get, store) =>
\* store, which is called once.  Neither iteration looks at what the getter
\* returns or at whether a setter was given.
Bind(d) ==
    /\ budget > 0
    /\ d \in (LateStores \cup TodoStores) \ bound
    /\ bound' = bound \cup {d}
    /\ \E made \in {IF implOf(d) = "NibbleStore"
                     THEN Build(d, [returns |-> Binding(d)])
                     ELSE [calls |-> <<>>, returned |-> [value |-> Binding(d)]]} :
        /\ made.returned.value = Binding(d)
        /\ last' = [NoOp EXCEPT !.op = "bind", !.store = d, !.parent = parentOf(d),
                                !.trace = [i \in 1..Len(made.calls) |-> "initializer"]]
    /\ heap' = Collect(heap, Roots(state, initialState, NoOp))
    /\ budget' = budget - 1
    /\ UNCHANGED <<state, initialState, listeners, production, subscriptions, ctor>>

(***************************************************************************)
(* Construction.  Each parent is { age, child, other }: `child` and        *)
(* `other` are two separate objects, each what the initializer returned.   *)
(***************************************************************************)
InitialHeap(child) ==
    LET root(c, o) == [sc |-> [k \in {"age"} |-> 1], arr |-> FALSE, len |-> 0,
                       ob |-> [k \in {"child", "other"} |-> IF k = "child" THEN c ELSE o],
                       ord |-> <<"age", "child", "other">>]
    IN  <<root(2, 3), child, child, root(5, 6), child, child>>

JoeObject == PlainObject([k \in NamedKeys |-> 1])

JoeArray == ArrayOf([i \in 1..MaxLen |-> ((i - 1) % MaxVal) + 1])

InitBound(children, ops, stores) ==
    /\ heap \in {InitialHeap(c) : c \in children}
    /\ state = [p \in Parents |-> IF p = "dad" THEN 1 ELSE 4]
    /\ initialState = state
    /\ listeners = [p \in Parents |-> <<>>]
    /\ production \in BOOLEAN
    /\ budget = ops
    /\ bound = stores
    /\ subscriptions = <<>>
    /\ ctor = [d \in Stores |-> heap[Getter(d, heap, state[parentOf(d)])]]
    /\ last = NoOp

InitStores(children, ops) == InitBound(children, ops, Stores)

Init == InitStores({JoeObject, JoeArray}, MaxOps)

\* The store machine over one parent: both iterations of the binder over
\* dad, dad's own action, subscriptions.
DadStores == {d \in Stores : parentOf(d) = "dad"}

Next ==
    \/ \E d \in DadStores, n \in SmallNextStates, r \in ReplaceFlags :
            SetState(d, Literal(n), r, TRUE)
    \/ \E d \in DadStores, r \in ReplaceFlags : SetState(d, Birthday, r, TRUE)
    \/ ParentBirthday("dad")
    \/ \E d \in DadStores, l \in ListenerFns : Subscribe(d, l)

Spec == Init /\ [][Next]_vars

(***************************************************************************)
(* The merge/replace policy on its own: any child value, one call with any *)
(* value, through either iteration of the binder.                          *)
(***************************************************************************)
InitPolicy == InitStores(NextStates, 1)

NextPolicy ==
    \/ \E d \in DadStores, n \in NextStates, r \in ReplaceFlags :
            SetState(d, Literal(n), r, TRUE)
    \/ \E d \in DadStores, r \in ReplaceFlags : SetState(d, Birthday, r, TRUE)

SpecPolicy == InitPolicy /\ [][NextPolicy]_vars

(***************************************************************************)
(* One recipe bound to two parent stores.                                  *)
(***************************************************************************)
RecipeStores == {"d1", "m1"}

NextRecipe ==
    \/ \E d \in RecipeStores, n \in SmallNextStates, r \in ReplaceFlags :
            SetState(d, Literal(n), r, FALSE)
    \/ \E d \in RecipeStores, r \in ReplaceFlags : SetState(d, Birthday, r, FALSE)
    \/ \E p \in Parents : ParentBirthday(p)
    \/ \E d \in RecipeStores, l \in ListenerFns : Subscribe(d, l)

SpecRecipe == Init /\ [][NextRecipe]_vars

(***************************************************************************)
(* The built child: its closure birthday, next to setState through the     *)
(* stores and subscriptions.                                               *)
(***************************************************************************)
NextBuild ==
    \/ \E d \in Stores : ChildBirthday(d)
    \/ \E d \in DadStores, n \in SmallNextStates, r \in ReplaceFlags :
            SetState(d, Literal(n), r, TRUE)
    \/ \E d \in DadStores, l \in ListenerFns : Subscribe(d, l)

SpecBuild == Init /\ [][NextBuild]_vars

(***************************************************************************)
(* Listeners: several writers over dad (two derived stores, dad's own      *)
(* action), subscribers through the derived stores and on dad itself, one  *)
(* of them writing from inside the notification pass.                      *)
(***************************************************************************)
InitListeners == InitStores({JoeObject}, MaxSteps)

AgeValues == {PlainObject([k \in {"age"} |-> v]) : v \in Vals}

NextListeners ==
    \/ \E d \in DadStores, n \in AgeValues : SetState(d, Literal(n), "unset", TRUE)
    \/ ParentBirthday("dad")
    \/ \E d \in DadStores \cup {"p0"}, l \in AllListenerFns : Subscribe(d, l)
    \/ \E i \in 1..Len(subscriptions) : Unsubscribe(i)
    \/ \E d \in DadStores : Destroy(d)

SpecListeners == InitListeners /\ [][NextListeners]_vars

(***************************************************************************)
(* Getters that find nothing: the stores t1 and x1 next to d1, with        *)
(* subscribers through all three.                                          *)
(***************************************************************************)
TodoUsers == bound \cap (TodoStores \cup {"d1"})

NextTodo ==
    \/ \E d \in TodoStores : Bind(d)
    \/ \E d \in TodoUsers, n \in AgeValues, r \in ReplaceFlags : SetState(d, Literal(n), r, TRUE)
    \/ \E d \in TodoUsers : SetState(d, Birthday, "unset", TRUE)
    \/ \E d \in TodoUsers : GetState(d)
    \/ \E d \in TodoUsers, l \in ListenerFns : Subscribe(d, l)

SpecTodo == InitListeners /\ [][NextTodo]_vars

(***************************************************************************)
(* Two stores from the same nibble over dad, both bound when the machine   *)
(* starts, written and subscribed through either.                          *)
(***************************************************************************)
InitTwins == InitBound({JoeObject}, MaxSteps, Stores \cup Twins)

NextTwins ==
    \/ \E d \in Twins, n \in AgeValues, r \in ReplaceFlags : SetState(d, Literal(n), r, TRUE)
    \/ \E d \in Twins : SetState(d, Birthday, "unset", TRUE)
    \/ \E d \in Twins, l \in ListenerFns : Subscribe(d, l)

SpecTwins == InitTwins /\ [][NextTwins]_vars

(***************************************************************************)
(* Setters that return their result: v1 and v2 over dad's child, next to   *)
(* the store k1 with the default setter, with subscribers on dad and       *)
(* through the stores.                                                     *)
(***************************************************************************)
InitSetter == InitBound({JoeObject}, MaxOps, Stores \cup SetterStores \cup ClassStores)

NextSetter ==
    \/ \E d \in SetterStores \cup ClassStores, n \in ObjectValues, r \in ReplaceFlags :
            SetState(d, Literal(n), r, TRUE)
    \/ \E d \in SetterStores \cup ClassStores : SetState(d, Birthday, "unset", TRUE)
    \/ \E d \in SetterStores \cup {"p0"}, l \in AllListenerFns : Subscribe(d, l)

SpecSetter == InitSetter /\ [][NextSetter]_vars

(***************************************************************************)
(* The parents under construction.  create(creator) makes the api, calls   *)
(* the creator with it and only then sets the state to what the creator    *)
(* returned: while the creator runs (child: createChild(api)(createJoe),   *)
(* or nibble(api)(getter)()(f)), the parent's state is still unset.  The   *)
(* module creates dad first and mom after it (recipe.ts 8-20): mom's child *)
(* is built when dad is a finished store that may have been used.          *)
(***************************************************************************)

\* derivedStore.getInitialState(): getter(api.getInitialState()).
GetInitialState(d) ==
    /\ budget > 0
    /\ d \in bound
    /\ last' = [NoOp EXCEPT !.op = "getInitialState", !.store = d, !.parent = parentOf(d),
                            !.pre = initialState[parentOf(d)],
                            !.trace = <<"getInitialState", "getter">>,
                            !.threw = Throws(heap, initialState[parentOf(d)], GetterPath(d))]
    /\ heap' = Collect(heap, Roots(state, initialState, last'))
    /\ budget' = budget - 1
    /\ UNCHANGED <<state, initialState, listeners, production, bound, subscriptions, ctor>>

\* Parent p is the store whose creator has not returned yet: create(dad)
\* runs and returns before create(mom) is called.
UnderConstruction(p) ==
    /\ state[p] = Undefined
    /\ p = "mom" => state["dad"] # Undefined

\* child: createChild(api)(f) inside the parent's creator, f an initializer
\* that returns the child without calling set or get: the store is made,
\* f is called with its three handles, and what f returned is the result.
BuildState(d) ==
    /\ d \in Stores \ bound
    /\ UnderConstruction(parentOf(d))
    /\ \E built \in {Build(d, [returns |-> ctor[d]])} :
        /\ built.returned.value = ctor[d]
        /\ last' = [NoOp EXCEPT !.op = "build", !.store = d, !.parent = parentOf(d),
                                !.trace = [i \in 1..Len(built.calls) |-> "initializer"]]
    /\ bound' = bound \cup {d}
    /\ UNCHANGED <<heap, state, initialState, listeners, production, budget, subscriptions, ctor>>

\* The state a creator returned, put on the heap: the root { age, child,
\* other } and the two objects the initializers returned.
Created(h, child, other) ==
    LET c == Alloc(h)
        h1 == Put(h, c, child)
        o == Alloc(h1)
        h2 == Put(h1, o, other)
        r == Alloc(h2)
    IN  [heap |-> Put(h2, r, [sc |-> [k \in {"age"} |-> 1], arr |-> FALSE, len |-> 0,
                              ob |-> [k \in {"child", "other"} |->
                                         IF k = "child" THEN c ELSE o],
                              ord |-> <<"age", "child", "other">>]),
         root |-> r]

\* The creator of parent p has returned: state = initialState = what it
\* returned, with every child built in it.
Construct(p) ==
    /\ UnderConstruction(p)
    /\ {d \in Stores : parentOf(d) = p} \subseteq bound
    /\ \E made \in {Created(heap, ctor[IF p = "dad" THEN "d1" ELSE "m1"],
                             ctor[IF p = "dad" THEN "d2" ELSE "m1"])} :
        /\ state' = [state EXCEPT ![p] = made.root]
        /\ initialState' = [initialState EXCEPT ![p] = made.root]
        /\ heap' = Collect(made.heap, Roots(state', initialState', NoOp))
    /\ last' = [NoOp EXCEPT !.op = "construct", !.parent = p]
    /\ UNCHANGED <<listeners, production, budget, bound, subscriptions, ctor>>

InitConstruct ==
    /\ heap = <<>>
    /\ state = [p \in Parents |-> Undefined]
    /\ initialState = state
    /\ listeners = [p \in Parents |-> <<>>]
    /\ production \in BOOLEAN
    /\ budget = MaxOps
    /\ bound = {}
    /\ subscriptions = <<>>
    /\ ctor = [d \in Stores |-> JoeObject]
    /\ last = NoOp

NextConstruct ==
    \/ \E d \in Stores : BuildState(d)
    \/ \E d \in LateStores \cup TodoStores : Bind(d)
    \/ \E p \in Parents : Construct(p)
    \/ \E d \in bound : GetState(d)
    \/ \E d \in bound : GetInitialState(d)
    \/ \E d \in bound \cap {"d1", "d2", "n1"}, n \in AgeValues : SetState(d, Literal(n), "unset", TRUE)
    \/ \E d \in bound, l \in ListenerFns : Subscribe(d, l)

SpecConstruct == InitConstruct /\ [][NextConstruct]_vars

(***************************************************************************)
(* Several stores over dad's child, each calling birthday, with listeners  *)
(* of which lb calls birthday itself when it is notified.  The child       *)
(* starts at age 0.                                                        *)
(***************************************************************************)
Newborn == PlainObject([k \in NamedKeys |-> IF k = "age" THEN 0 ELSE 1])

ChildStores == {"d1", "n1", "k1"}

InitRace ==
    /\ heap = InitialHeap(Newborn)
    /\ state = [p \in Parents |-> IF p = "dad" THEN 1 ELSE 4]
    /\ initialState = state
    /\ listeners = [p \in Parents |-> <<>>]
    /\ production \in BOOLEAN
    /\ budget = MaxSteps
    /\ bound = Stores \cup ChildStores
    /\ subscriptions = <<>>
    /\ ctor = [d \in Stores |-> Newborn]
    /\ last = NoOp

NextRace ==
    \/ \E d \in ChildStores : SetState(d, Birthday, "unset", TRUE)
    \/ \E d \in ChildStores, l \in {"l1", "lb"} : Subscribe(d, l)

SpecRace == InitRace /\ [][NextRace]_vars

(***************************************************************************)
(* One call with a literal value on any child value, then the same call    *)
(* again.  The child values include an array that has properties of its    *)
(* own next to its elements, Object.assign([1], { name: 1, age: 1 }).      *)
(***************************************************************************)
TaggedArray ==
    [ArrayOf(<<1>>) EXCEPT !.sc = [k \in {"0"} \cup NamedKeys |-> 1],
                           !.ord = <<"name", "age">>]

InitTwice == InitStores(NextStates \cup {TaggedArray}, MaxOps)

\* The call that was just made, made again with the same arguments.
Again ==
    /\ last.op = "setState"
    /\ SetState(last.store, last.partial, last.replace, TRUE)

NextTwice ==
    \/ /\ last.op = "none"
       /\ \E d \in DadStores, n \in NextStates, r \in {"false", "true"} :
              SetState(d, Literal(n), r, TRUE)
    \/ Again

SpecTwice == InitTwice /\ [][NextTwice]_vars

(***************************************************************************)
(* Merging calls with literal objects on an object child, each with no key *)
(* of the call before it.                                                  *)
(***************************************************************************)
InitDisjoint == InitStores(ObjectValues, MaxOps)

DisjointKeys(a, b) == DOMAIN a.sc \cap DOMAIN b.sc = {}

NextDisjoint ==
    \E d \in DadStores, n \in ObjectValues :
        /\ last.op = "setState" => DisjointKeys(n, last.partial.value)
        /\ SetState(d, Literal(n), "unset", TRUE)

SpecDisjoint == InitDisjoint /\ [][NextDisjoint]_vars

(***************************************************************************)
(* The closure-based store d1 and the class-based store k1 over the same   *)
(* child of dad, called in any mixture, with the listener l1 subscribed     *)
(* through k1 and the writing listener lw through d1.                      *)
(***************************************************************************)
BothIterations == {"d1", "k1"}

InitAgree == InitBound({JoeObject, JoeArray}, MaxOps, Stores \cup ClassStores)

NextAgree ==
    \/ \E d \in BothIterations, n \in SmallNextStates, r \in {"unset", "true"} :
            SetState(d, Literal(n), r, TRUE)
    \/ \E d \in BothIterations, r \in {"unset", "true"} : SetState(d, Birthday, r, TRUE)
    \/ \E d \in BothIterations, r \in {"unset", "true"} : SetState(d, Identity, r, TRUE)
    \/ \E d \in BothIterations, l \in {"l1", "lw"} :
            /\ (d = "d1") = Writes(l)
            /\ Subscribe(d, l)

SpecAgree == InitAgree /\ [][NextAgree]_vars

(***************************************************************************)
(* Stores over a derived store.  Dad's child holds an object of its own,   *)
(* { name, age, inner: { ... } }; y1 and y0 are bound over the derived     *)
(* store of the child, z1 and z0 over dad with the composed getters.       *)
(***************************************************************************)
InitNested ==
    /\ \E inner \in {JoeObject, JoeArray} :
          heap = Put(Put(InitialHeap(JoeObject), 2,
                         [JoeObject EXCEPT !.ob = [k \in {"inner"} |-> 7],
                                           !.ord = <<"name", "age", "inner">>]),
                     7, inner)
    /\ state = [p \in Parents |-> IF p = "dad" THEN 1 ELSE 4]
    /\ initialState = state
    /\ listeners = [p \in Parents |-> <<>>]
    /\ production \in BOOLEAN
    /\ budget = MaxOps
    /\ bound = Stores \cup NestedStores \cup ComposedStores
    /\ subscriptions = <<>>
    /\ ctor = [d \in Stores |-> heap[Getter(d, heap, state[parentOf(d)])]]
    /\ last = NoOp

NextNested ==
    \/ \E d \in NestedStores \cup ComposedStores, n \in SmallNextStates, r \in {"unset", "true"} :
            SetState(d, Literal(n), r, TRUE)
    \/ \E d \in {"y1", "z1"} : SetState(d, Birthday, "unset", TRUE)
    \/ \E d \in NestedStores \cup ComposedStores, l \in AllListenerFns : Subscribe(d, l)

SpecNested == InitNested /\ [][NextNested]_vars

(***************************************************************************)
(* Binding stores to an existing parent, and using them.                   *)
(***************************************************************************)
\* The bound stores over dad whose child is an object or an array.
ObjectStores == {d \in bound : parentOf(d) = "dad" /\ ~IsPrimitive(GetterPath(d))}

NextBind ==
    \/ \E d \in LateStores : Bind(d)
    \/ \E d \in ObjectStores, n \in SmallNextStates, r \in ReplaceFlags :
            SetState(d, Literal(n), r, TRUE)
    \/ \E d \in ObjectStores, r \in ReplaceFlags : SetState(d, Birthday, r, TRUE)
    \/ \E d \in ObjectStores, l \in ListenerFns : Subscribe(d, l)

SpecBind == Init /\ [][NextBind]_vars

(***************************************************************************)
(* Properties.                                                             *)
(***************************************************************************)
RECURSIVE Snapshot(_, _)

\* The value of the object at `ref`, whatever its references are and
\* whatever order its keys were added in.
Snapshot(h, ref) ==
    IF ref = Undefined THEN [undefined |-> TRUE]
    ELSE [arr |-> h[ref].arr, len |-> h[ref].len, sc |-> h[ref].sc,
          ob |-> [k \in DOMAIN h[ref].ob |-> Snapshot(h, h[ref].ob[k])]]

\* What the last operation was.
DidSetState == last.op = "setState"

\* The last operation changed the state of the parent it acted on.
StateChanged == last.pre # 0 /\ state[last.parent] # last.pre

\* The child of store d before the last operation (its reference).
ChildBefore(d) == Follow(last.before, last.pre, GetterPath(d))

\* C1: projection consistency.  In every reachable state, whatever derived
\* setState calls and direct parent updates led to it, getState() of each
\* derived store is the very object the getter's path reaches from the
\* parent's current state, and it is what the last notification delivered
\* as the new value: the derived store holds no copy of its own.
ProjectionConsistency ==
    /\ \A d \in Stores :
          getState(d) = heap[state[parentOf(d)]].ob[Head(GetterPath(d))]
    /\ \A i \in 1..Len(last.notified) :
          getState(last.notified[i].store) = last.notified[i].new

\* A derived setState that changed dad's child after dad's own action had
\* already replaced the state the stores were bound over.
ProjectionWitness ==
    /\ DidSetState /\ last.store = "d1" /\ StateChanged
    /\ heap[state["dad"]].sc["age"] = 2
    /\ heap[getState("d1")] # heap[getInitialState("d1")]

\* The values the last setState call was about: the child before it, the
\* literal passed, the child after it.
PriorChild == last.before[ChildBefore(last.store)]

PassedValue == last.partial.value

CurrentChild == heap[getState(last.store)]

\* The last operation was setState(literal) without / with replace.
DidMerge == DidSetState /\ ~last.partial.fn /\ last.replace \in {"unset", "false"}

DidReplace == DidSetState /\ ~last.partial.fn /\ last.replace = "true"

\* C2: read-after-write under merge.  For an object child C and a value a,
\* after setState(a) with replace unset or false, getState() has a's value
\* for every key of a and C's prior value for every key of C not in a.
ReadAfterWriteMerge ==
    (DidMerge /\ ~PriorChild.arr) =>
        /\ ~last.threw
        /\ \A k \in DOMAIN PassedValue.sc :
              k \in DOMAIN CurrentChild.sc /\ CurrentChild.sc[k] = PassedValue.sc[k]
        /\ \A k \in DOMAIN PriorChild.sc \ DOMAIN PassedValue.sc :
              k \in DOMAIN CurrentChild.sc /\ CurrentChild.sc[k] = PriorChild.sc[k]

\* { name: 1, age: 1 } merged with { age: 2 } reads { name: 1, age: 2 }.
ReadAfterWriteMergeWitness ==
    /\ DidMerge /\ last.replace = "unset"
    /\ PriorChild = PlainObject([k \in NamedKeys |-> 1])
    /\ PassedValue = PlainObject([k \in {"age"} |-> 2])
    /\ CurrentChild = PlainObject([k \in NamedKeys |-> IF k = "age" THEN 2 ELSE 1])

\* C3: replace semantics as claimed.  For every child C and every value N,
\* objects and arrays in any combination, after setState(N, true) the
\* child is structurally exactly N: N's keys/indices and values, N's length
\* and kind, nothing left over from C.
ReplaceYieldsNext == DidReplace => CurrentChild = PassedValue

\* C4: the array scenario, generalized.  For an array child C and an array
\* N no longer than C, setState(N) yields N's elements followed by C's
\* elements at the remaining indices, setState(N, true) yields exactly N.
ArrayScenario ==
    (DidSetState /\ ~last.partial.fn /\ PriorChild.arr /\ PassedValue.arr
        /\ PassedValue.len <= PriorChild.len) =>
        /\ ~last.threw
        /\ IF last.replace = "true"
           THEN CurrentChild = PassedValue
           ELSE CurrentChild =
                  [PriorChild EXCEPT
                     !.sc = [k \in DOMAIN PriorChild.sc |->
                               IF k \in DOMAIN PassedValue.sc
                               THEN PassedValue.sc[k] ELSE PriorChild.sc[k]]]

\* [1, 2, 1] merged with [2, 1] reads [2, 1, 1].
ArrayScenarioWitness ==
    /\ DidMerge
    /\ PriorChild = ArrayOf(<<1, 2, 1>>)
    /\ PassedValue = ArrayOf(<<2, 1>>)
    /\ CurrentChild = ArrayOf(<<2, 1, 1>>)

\* The wrappers registered on the parent the last operation acted on.
Wrappers == listeners[last.parent]

\* The wrapper that made the listener call e.
By(e) == [fn |-> e.fn, store |-> e.store, id |-> e.id]

\* The calls wrapper w made of its listener during the last operation.
Invocations(w) == {j \in 1..Len(last.notified) : By(last.notified[j]) = w}

\* Where the event ev stands in the course of the last operation.
Positions(ev) == {i \in 1..Len(last.trace) : last.trace[i] = ev}

\* The wrappers of the parent whose getter throws on the current state.
ThrowingWrappers ==
    {i \in 1..Len(Wrappers) : Throws(heap, state[last.parent], GetterPath(Wrappers[i].store))}

\* The child of wrapper w's store in the state before / after the update.
ProjectedBefore(w) == Follow(last.before, last.pre, GetterPath(w.store))

ProjectedAfter(w) == Getter(w.store, heap, state[last.parent])

\* C5: every setState call that returns issues exactly one update to the
\* parent store and that update triggers exactly one round of
\* notification, also when the merged value equals the current child value.
OneRoundPerCall ==
    (DidSetState /\ ~last.threw) => (last.issued = 1 /\ last.rounds = 1)

\* C6: every setState that returns invokes each listener registered
\* through a derived store of that parent exactly once for each of its
\* registrations, with (getter(state after), getter(state before)).
ListenerOncePerCall ==
    (DidSetState /\ ~last.threw) =>
        \A i \in 1..Len(Wrappers) :
            /\ Cardinality(Invocations(Wrappers[i])) = 1
            /\ \A j \in Invocations(Wrappers[i]) :
                  /\ last.notified[j].new = ProjectedAfter(Wrappers[i])
                  /\ last.notified[j].prev = ProjectedBefore(Wrappers[i])

\* The last update left the projection of wrapper w alone: it was the
\* parent's own action, or went through a store with another getter.
LeavesProjection(w) ==
    last.op = "parentSet" \/ GetterPath(last.store) # GetterPath(w.store)

\* C7: no de-duplication.  For every parent update that notifies, each
\* listener registered through a derived store is invoked exactly once by
\* each wrapper a subscribe call registered for it, also when the update
\* (made on the parent itself or through another derived store) leaves its
\* projected child unchanged; it then receives the same child as new and
\* as previous value.
NoDeduplication ==
    (last.op \in {"setState", "parentSet"} /\ last.rounds = 1) =>
        \A i \in 1..Len(Wrappers) :
            /\ Cardinality(Invocations(Wrappers[i])) = 1
            /\ LeavesProjection(Wrappers[i]) =>
                  \A j \in Invocations(Wrappers[i]) :
                      /\ last.notified[j].new = last.notified[j].prev
                      /\ last.notified[j].prev = ProjectedBefore(Wrappers[i])

\* A listener of d1 was called with one child twice, for an update made
\* through d2.
NoDeduplicationWitness ==
    /\ DidSetState /\ last.store = "d2" /\ last.rounds = 1
    /\ \E j \in 1..Len(last.notified) :
          /\ last.notified[j].store = "d1"
          /\ last.notified[j].new = last.notified[j].prev

\* C8: initial-value stability.  After any derived setState calls (merge
\* or replace) and parent updates, getInitialState() of each derived store
\* still reads the child value the parent was constructed with.
InitialStateStable ==
    \A d \in Stores : heap[getInitialState(d)] = ctor[d]

\* Two operations done, the last a replace that changed the child of d1.
InitialStateStableWitness ==
    /\ budget = 0 /\ DidReplace /\ last.store = "d1" /\ StateChanged
    /\ heap[getState("d1")] # ctor["d1"]
    /\ getState("d1") # getInitialState("d1")

\* The step is a setState through derived store d.
SetThrough(d) == last'.op = "setState" /\ last'.store = d

\* The step leaves parent q and its derived store e as they were and calls
\* no listener subscribed through e.
Untouched(q, e) ==
    /\ state'[q] = state[q]
    /\ heap'[state'[q]] = heap[state[q]]
    /\ getState(e)' = getState(e)
    /\ heap'[getState(e)'] = heap[getState(e)]
    /\ \A j \in 1..Len(last'.notified) : last'.notified[j].store # e

\* C9: recipe independence.  With one recipe bound to two parent stores,
\* every setState on one derived store leaves the other parent's state
\* (reference and value) and the other derived store's getState()
\* unchanged, and calls no listener subscribed through the other store.
RecipeIndependence ==
    [][/\ SetThrough("d1") => Untouched("mom", "m1")
       /\ SetThrough("m1") => Untouched("dad", "d1")]_vars

\* A setState on d1 changed dad's child and notified, while a listener is
\* subscribed through m1 and mom's child is what it was constructed with.
RecipeIndependenceWitness ==
    /\ DidSetState /\ last.store = "d1" /\ StateChanged
    /\ \E i \in 1..Len(listeners["mom"]) : listeners["mom"][i].store = "m1"
    /\ heap[getState("d1")] # ctor["d1"]
    /\ heap[getState("m1")] = ctor["m1"]

\* The parent root before and after the last operation.
RootBefore == last.before[last.pre]

RootAfter == heap[state[last.parent]]

ChildKey == Head(GetterPath(last.store))

\* C10: frame of a child write.  derivedStore.setState changes only the
\* path from the parent root to the child: the root keeps its own scalar
\* fields and its set of keys, every sub-value beside the child keeps its
\* reference and its value, no object of the previous state is written
\* to, and when the child value changes the root and the child are newly
\* allocated.
FrameOfChildWrite ==
    DidSetState =>
        /\ RootAfter.sc = RootBefore.sc
        /\ DOMAIN RootAfter.ob = DOMAIN RootBefore.ob
        /\ \A k \in DOMAIN RootBefore.ob \ {ChildKey} :
              /\ RootAfter.ob[k] = RootBefore.ob[k]
              /\ heap[RootAfter.ob[k]] = last.before[RootBefore.ob[k]]
        /\ \A r \in DOMAIN last.before : r \in DOMAIN heap /\ heap[r] = last.before[r]
        /\ (CurrentChild # PriorChild) =>
              /\ state[last.parent] \notin DOMAIN last.before
              /\ getState(last.store) \notin DOMAIN last.before

\* A write through d1 changed the child: new root, new child, and the
\* object under `other` is the one the previous root referred to.
FrameOfChildWriteWitness ==
    /\ DidSetState /\ last.store = "d1" /\ CurrentChild # PriorChild
    /\ state["dad"] # last.pre
    /\ getState("d1") # RootBefore.ob["child"]
    /\ getState("d2") = RootBefore.ob["other"]

\* C11: scalar child requires setter.  A store over a getter whose result
\* is a primitive, bound without a setter, never comes to exist: the bind
\* fails.
ScalarChildRejected ==
    \A d \in bound : ~(IsPrimitive(GetterPath(d)) /\ setterOf(d) \in {"set", "default"})

\* C12: explicit teardown is rejected.  In every reachable state, destroy
\* on a derived store fails with an error and leaves the parent state and
\* the registered subscriptions as they were.
DestroyRejected ==
    [][last'.op = "destroy" =>
          /\ last'.threw
          /\ state' = state
          /\ \A p \in Parents : heap'[state'[p]] = heap[state[p]]
          /\ \A d \in Stores : heap'[getState(d)'] = heap[getState(d)]
          /\ listeners' = listeners]_vars

\* destroy was called after an update, with a listener subscribed.
DestroyRejectedWitness ==
    /\ last.op = "destroy" /\ last.threw
    /\ Len(listeners["dad"]) > 0
    /\ state["dad"] # initialState["dad"]

\* The last operation was an update of a parent store.
DidUpdate == last.op \in {"setState", "parentSet"}

\* The notifications the listener of wrapper w received through it during
\* the last operation, in the order in which it received them.
Received(w) == SelectSeq(last.notified, LAMBDA e : By(e) = w)

\* The listener of wrapper w saw the updates of the last operation as one
\* chain: what it got as previous value is what it got as new value just
\* before, starting from the state before the operation and ending at the
\* current state.
InOrder(w) ==
    LET es == Received(w)
    IN  es # <<>> =>
          /\ es[1].prev = Follow(last.before, last.pre, GetterPath(w.store))
          /\ \A k \in 1..(Len(es) - 1) : es[k + 1].prev = es[k].new
          /\ es[Len(es)].new = Getter(w.store, heap, state[last.parent])

\* C13 as claimed: with several writers over one parent, also with a
\* setState issued from inside a listener, the previous value of every
\* notification a listener receives is the new value of the one before.
TotalOrderObserved ==
    DidUpdate => \A i \in 1..Len(Wrappers) : InOrder(Wrappers[i])

\* The order C13 asks for holds for the updates during whose notification
\* pass no listener updates the store again.
TotalOrderOutsidePass ==
    (DidUpdate /\ last.rounds <= 1) => \A i \in 1..Len(Wrappers) : InOrder(Wrappers[i])

\* The third operation is the second update, made through d2 after one
\* made otherwise, and a listener subscribed through d1 received it.
TotalOrderOutsidePassWitness ==
    /\ DidSetState /\ last.store = "d2" /\ last.rounds = 1
    /\ last.pre # initialState["dad"]
    /\ \E j \in 1..Len(last.notified) : last.notified[j].store = "d1"

\* C14: setState is synchronous end to end.  When a setState through a
\* derived store returns, the child holds the values that were passed, and
\* every wrapper registered on the parent at the time of the call, for a
\* listener of the parent itself or of a derived store, has called its
\* listener for the update, the last time with the state the store now
\* holds; and no operation that is not an update delivers a notification
\* afterwards.
SynchronousEndToEnd ==
    /\ (DidSetState /\ ~last.threw) =>
         /\ DidMerge =>
              \A k \in DOMAIN PassedValue.sc :
                  k \in DOMAIN CurrentChild.sc /\ CurrentChild.sc[k] = PassedValue.sc[k]
         /\ \A i \in 1..Len(Wrappers) :
              LET es == Received(Wrappers[i])
              IN  /\ es # <<>>
                  /\ es[Len(es)].new = ProjectedAfter(Wrappers[i])
    /\ ~DidUpdate => last.notified = <<>>

\* The same call with the value birthday returns for the prior child in
\* the place of birthday, made in the state before the last operation.
WithResult ==
    setState(last.before, last.pre, last.store, <<>>,
             Literal(Resolve(Birthday, PriorChild)), last.replace)

Registered(w) ==
    \E j \in 1..Len(listeners[parentOf(w.store)]) : listeners[parentOf(w.store)][j] = w

\* The function the i-th subscribe call returned has been called, or, for
\* a listener handed to the parent itself, the function any subscribe call
\* returned for that listener.
Removed(i) ==
    \E k \in 1..Len(subscriptions) :
        WrapperOf(k) = WrapperOf(i) /\ subscriptions[k].state = "cancelled"

\* C19: the function subscribe returns removes exactly the listener it was
\* returned for, a listener being what one subscribe call registered.  Once
\* the function a subscribe call on a derived store returned has been
\* called, the wrapper of that call is no listener of the parent any more
\* and no update calls it again; every other registration, of the same
\* listener function through the same store included, is still a listener
\* of the parent; nothing is registered that no subscribe call registered;
\* and every registered wrapper calls its listener in each round of every
\* update.
UnsubscribeExact ==
    /\ \A i \in 1..Len(subscriptions) :
         /\ (subscriptions[i].state = "cancelled" /\ implOf(subscriptions[i].store) # "parent") =>
               (~Registered(WrapperOf(i)) /\ Received(WrapperOf(i)) = <<>>)
         /\ ~Removed(i) => Registered(WrapperOf(i))
    /\ \A p \in Parents : \A j \in 1..Len(listeners[p]) :
         \E i \in 1..Len(subscriptions) : WrapperOf(i) = listeners[p][j]
    /\ (DidUpdate /\ ~last.threw) =>
         \A j \in 1..Len(Wrappers) : Len(Received(Wrappers[j])) = last.rounds

\* One listener was subscribed twice through one derived store and the
\* function the one call returned was called: an update then called the
\* listener through the wrapper of the other call only.
UnsubscribeExactWitness ==
    /\ DidUpdate /\ last.rounds >= 1
    /\ \E i, k \in 1..Len(subscriptions) :
         /\ subscriptions[i].fn = subscriptions[k].fn
         /\ subscriptions[i].store = subscriptions[k].store
         /\ implOf(subscriptions[i].store) # "parent"
         /\ subscriptions[i].state = "cancelled" /\ Received(WrapperOf(i)) = <<>>
         /\ subscriptions[k].state = "active" /\ Received(WrapperOf(k)) # <<>>

\* The calls of a setter in the course of the last operation.
SetterCalls == {i \in 1..Len(last.trace) : last.trace[i] \in {"setter:default", "setter:immerSet"}}

\* C20: custom setter routing.  Every setState of a store bound with a
\* setter (c2, bound with the set of the immer middleware) begins with the
\* one call of that setter it makes, and api.setState is called only from
\* within it; a store bound without one (d2) makes its one call to the
\* default setter, which calls api.setState(produce(updater)).
SetterRouting ==
    (DidSetState /\ implOf(last.store) = "NibbleStore") =>
        /\ SetterCalls = {1}
        /\ last.store = "c2" => last.trace[1] = "setter:immerSet"
        /\ last.store = "d2" => (last.trace[1] = "setter:default" /\ last.trace[2] = "api.setState")
        /\ \A i \in Positions("api.setState") : i > 1
        /\ last.issued = 1

\* A setState through the store bound with the custom setter changed the
\* parent's state.
SetterRoutingWitness ==
    DidSetState /\ last.store = "c2" /\ StateChanged /\ last.trace[1] = "setter:immerSet"

\* The last operation was a call of the closure the initializer returned.
DidClosure == last.op = "closure"

\* C16: building the initialized state calls the initializer once, with
\* the derived store's own setState, getState and the store, and returns
\* what the initializer returns, which is the child the parent was
\* constructed with; a later call of the returned closure, through the
\* setState it was given, updates the child inside the parent store: the
\* child is one year older and gains no key, its elements and, when it is a
\* plain object, its other properties are as before (the copy immer makes
\* of an array keeps the elements only), and nothing else of the parent
\* changes.
BuildInitializedState ==
    /\ \A d \in Stores :
         LET built == Build(d, [returns |-> ctor[d]])
         IN  /\ built.calls = <<<<Binding(d), Binding(d), Binding(d)>>>>
             /\ built.returned.value = heap[getInitialState(d)]
             /\ built.returned.birthday = Binding(d)
    /\ (DidClosure /\ ~last.threw) =>
         /\ CurrentChild.sc["age"] = PriorChild.sc["age"] + 1
         /\ DOMAIN CurrentChild.sc \subseteq DOMAIN PriorChild.sc
         /\ \A k \in DOMAIN PriorChild.sc \ {"age"} :
                (IsIndexKey(k) \/ ~PriorChild.arr) =>
                    k \in DOMAIN CurrentChild.sc /\ CurrentChild.sc[k] = PriorChild.sc[k]
         /\ CurrentChild.ob = PriorChild.ob
         /\ CurrentChild.arr = PriorChild.arr /\ CurrentChild.len = PriorChild.len
         /\ heap[state[last.parent]].sc = last.before[last.pre].sc
         /\ \A k \in DOMAIN heap[state[last.parent]].ob \ {GetterPath(last.store)[1]} :
                heap[state[last.parent]].ob[k] = last.before[last.pre].ob[k]

\* The closure of a child built for a recipe store was called after the
\* child had been changed through the store, and the child grew older.
BuildInitializedStateWitness ==
    /\ DidClosure /\ ~last.threw /\ last.store = "d1"
    /\ PriorChild # ctor["d1"]
    /\ CurrentChild.sc["age"] = PriorChild.sc["age"] + 1

\* The last operation was a getState call.
DidGetState == last.op = "getState"

\* C18: errors are propagated.  getState through a store whose getter
\* throws ends in the exception; a setState through a store whose getter
\* throws or finds no child ends in the exception with the parent's state
\* as it was and no listener called; an update that reaches a subscribed
\* wrapper whose getter throws ends in the exception, no listener after
\* that wrapper having been called; and whenever setState throws before
\* the update was applied, the state is unchanged and nobody was notified.
ErrorsPropagated ==
    /\ (DidGetState /\ last.store = "x1") => last.threw
    /\ (DidGetState /\ last.store \in {"d1", "t1"}) => ~last.threw
    /\ (DidSetState /\ last.store \in TodoStores) =>
          (last.threw /\ ~StateChanged /\ last.notified = <<>> /\ last.rounds = 0)
    /\ (DidSetState /\ last.threw /\ Positions("applied") = {}) =>
          (~StateChanged /\ last.notified = <<>>)
    /\ (DidSetState /\ StateChanged /\ ThrowingWrappers # {}) =>
          /\ last.threw
          /\ \A j \in 1..Len(last.notified), i \in ThrowingWrappers :
                \A k \in i..Len(Wrappers) : By(last.notified[j]) # Wrappers[k]

\* A setState through the store whose getter finds no child failed while a
\* listener was subscribed.
ErrorsPropagatedWitness ==
    /\ DidSetState /\ last.store = "t1" /\ last.threw
    /\ Len(Wrappers) > 0

\* An update through d1 was applied and then failed in the wrapper of a
\* listener subscribed through x1.
ThrownWhileNotifying ==
    DidSetState /\ last.store = "d1" /\ StateChanged /\ last.threw /\ ThrowingWrappers # {}

\* C21: stores from the same nibble over the same parent are
\* interchangeable.  In every state they return the same getState() and
\* getInitialState(); what a setState through one of them merged or put in
\* place is read through each of them; and every setState through one of
\* them that returns has notified every listener subscribed through either,
\* the last time with the child they all read.
Interchangeable ==
    /\ getState("n1") = getState("n2")
    /\ getInitialState("n1") = getInitialState("n2")
    /\ (DidSetState /\ ~last.threw) =>
         /\ \A e \in Twins :
               /\ last.partial.fn =>
                    heap[getState(e)].sc["age"] = PriorChild.sc["age"] + 1
               /\ ~last.partial.fn =>
                    \A k \in DOMAIN PassedValue.sc : heap[getState(e)].sc[k] = PassedValue.sc[k]
               /\ DidReplace => DOMAIN heap[getState(e)].sc = DOMAIN PassedValue.sc
         /\ \A i \in 1..Len(Wrappers) :
               LET es == Received(Wrappers[i])
               IN  /\ es # <<>>
                   /\ es[Len(es)].new = getState("n1")

\* The parent value that produce makes of the state the last call found
\* and of the arguments of that call: what the setter of v1 returns, and
\* what the structural updater makes of the procedure the setter of v2
\* returns.
Forwarded ==
    produce(last.before, last.pre, GetterPath(last.store), last.partial, last.replace)

\* C22: a setter may return a direct value.  After every setState through
\* a store bound with a setter that returns its result, the next parent
\* value (v1) or the mutation procedure (v2), one update has been issued to
\* the parent store, and the parent's state is the value returned, or the
\* value the structural updater makes of the procedure.
SetterResultForwarded ==
    (DidSetState /\ last.store \in SetterStores /\ ~last.threw /\ ~Forwarded.threw) =>
        /\ last.issued = 1
        /\ Snapshot(heap, state[last.parent]) = Snapshot(Forwarded.heap, Forwarded.root)

\* The last operation merged an array into an array child.
DidArrayMerge == DidMerge /\ PriorChild.arr /\ PassedValue.arr

\* C23 as claimed: after setState(N) without replace on an array child C
\* the child has C's length, whether N is shorter than, as long as or
\* longer than C.
ArrayMergeKeepsLength ==
    DidArrayMerge => (~last.threw /\ CurrentChild.len = PriorChild.len)

\* C23, amended: array merge is index-wise assignment.  The child holds
\* N's elements at N's indices and C's elements at the indices past N's
\* end; its length is the larger of the two lengths, so it is C's length
\* exactly when N is no longer than C, and it is never shorter than C.
ArrayMergeIndexWise ==
    DidArrayMerge =>
        /\ ~last.threw
        /\ CurrentChild.arr
        /\ CurrentChild.len = (IF PassedValue.len > PriorChild.len
                               THEN PassedValue.len ELSE PriorChild.len)
        /\ DOMAIN CurrentChild.sc = IndexKeys(CurrentChild.len)
        /\ \A k \in DOMAIN CurrentChild.sc :
              CurrentChild.sc[k] = (IF k \in DOMAIN PassedValue.sc
                                    THEN PassedValue.sc[k] ELSE PriorChild.sc[k])

\* [1] merged with [2, 1, 2] reads [2, 1, 2]: the child grew.
ArrayMergeIndexWiseWitness ==
    /\ DidArrayMerge
    /\ PriorChild = ArrayOf(<<1>>)
    /\ PassedValue = ArrayOf(<<2, 1, 2>>)
    /\ CurrentChild = ArrayOf(<<2, 1, 2>>)

(***************************************************************************)
(* Binding and reading                                                     *)
(***************************************************************************)
\* C24: creating a derived store, building an initialized state whose
\* initializer calls neither set nor get, getState and getInitialState
\* leave the parent's state, its initial state, its objects and its
\* listeners as they were and issue no update of the parent; creating and
\* building moreover never call the getter nor read the parent's state, and
\* they return normally, also while the parent's state is still unset.
BindingAndReadingInert ==
    [][(last'.op \in {"bind", "build", "getState", "getInitialState"}) =>
        /\ state' = state
        /\ initialState' = initialState
        /\ listeners' = listeners
        /\ \A p \in Parents : state[p] # Undefined =>
              Collect(heap', {state[p]}) = Collect(heap, {state[p]})
        /\ last'.issued = 0
        /\ last'.notified = <<>>
        /\ \A i \in 1..Len(last'.trace) :
              last'.trace[i] \notin {"api.setState", "subscribe", "produce"}
        /\ (last'.op \in {"bind", "build"}) =>
              /\ ~last'.threw
              /\ last'.store \in bound'
              /\ \A i \in 1..Len(last'.trace) :
                    last'.trace[i] \notin {"get", "getInitialState", "getter"}]_vars

\* Mom's child is built while mom's creator runs and her state is unset,
\* after dad was constructed and his child changed through a store bound
\* to him.
BindingAndReadingInertWitness ==
    /\ last.op = "build" /\ last.store = "m1"
    /\ ~last.threw
    /\ state["mom"] = Undefined
    /\ state["dad"] # Undefined
    /\ state["dad"] # initialState["dad"]
    /\ "n1" \in bound

(***************************************************************************)
(* Updaters through several stores                                         *)
(***************************************************************************)
AgeOf(h, root) == h[Follow(h, root, ChildGetter)].sc["age"]

DidBirthday == DidSetState /\ last.partial = Birthday /\ ~last.threw

\* The calls of lb during the last call.
NestedBirthdays == {i \in 1..Len(last.notified) : last.notified[i].fn = "lb"}

\* C25: no update is lost.  Every setState(state => ({ age: state.age + 1 }))
\* through any of the stores over the same child, whichever store made the
\* call before it, leaves the age one above what it was, and two above when
\* a listener notified by the call made the same call through its own store
\* during the pass: each updater is applied to the result of the other.
NoLostUpdate ==
    [][(last'.op = "setState" /\ last'.partial = Birthday /\ ~last'.threw) =>
        /\ AgeOf(heap', state'["dad"]) = AgeOf(heap, state["dad"]) + last'.rounds
        /\ last'.rounds = 1 + (IF Subscribed("lb") /\ AgeOf(heap, state["dad"]) = 0
                               THEN 1 ELSE 0)]_vars

\* A birthday through the class-based store, during which the listener
\* subscribed through the closure-based one called birthday as well: the
\* age went from 0 to 2.
NoLostUpdateWitness ==
    /\ DidBirthday
    /\ last.store = "k1"
    /\ \E i \in NestedBirthdays : last.notified[i].store = "d1"
    /\ last.rounds = 2
    /\ AgeOf(last.before, last.pre) = 0
    /\ AgeOf(heap, state["dad"]) = 2

(***************************************************************************)
(* Algebra of literal calls                                                *)
(***************************************************************************)
\* C26: setState with a literal value is idempotent on the parent state.
\* When a call setState(a, replace) is followed by the same call through
\* the same store, the parent state after the second call has the value it
\* had after the first, for every child value, every literal and both
\* values of the flag.
LiteralIdempotent ==
    [][(/\ last.op = "setState" /\ last'.op = "setState"
        /\ ~last.partial.fn
        /\ last'.store = last.store
        /\ last'.partial = last.partial
        /\ last'.replace = last.replace) =>
            Snapshot(heap', state'[last.parent]) = Snapshot(heap, state[last.parent])]_vars

\* The second of two replacing calls with an array of two elements on an
\* array child, the first of which changed the state.
LiteralIdempotentWitness ==
    /\ DidSetState
    /\ budget = MaxOps - 2
    /\ last.replace = "true"
    /\ last.partial.value.arr
    /\ last.partial.value.len = 2
    /\ Snapshot(heap, state["dad"]) # Snapshot(heap, initialState["dad"])
    /\ Snapshot(heap, state["dad"]) = Snapshot(last.before, last.pre)

\* The parent state after setState(a) through x and then setState(b)
\* through y, from the state at `root`.
InOrderOf(h, root, x, a, y, b) ==
    LET first == setState(h, root, x, <<>>, Literal(a), "unset")
        second == setState(first.heap, first.root, y, <<>>, Literal(b), "unset")
    IN  Snapshot(second.heap, second.root)

\* C27: merges of disjoint keys commute.  After setState(a) and then
\* setState(b) on an object child, a and b literal objects with no key in
\* common and the replace flag unset, the parent state is the one that
\* setState(b) and then setState(a) yield from the same starting state:
\* for every first call (x, a) that accounts for the state the second call
\* found, the calls in the other order end in the current state.
DisjointMergesCommute ==
    (DidSetState /\ budget = MaxOps - 2) =>
        \A x \in DadStores : \A a \in ObjectValues :
            (/\ DisjointKeys(a, last.partial.value)
             /\ Snapshot(Only({r.heap : r \in {setState(heap, initialState["dad"], x, <<>>,
                                                        Literal(a), "unset")}}),
                         Only({r.root : r \in {setState(heap, initialState["dad"], x, <<>>,
                                                        Literal(a), "unset")}}))
                    = Snapshot(last.before, last.pre)) =>
                InOrderOf(heap, initialState["dad"], last.store, last.partial.value, x, a)
                    = Snapshot(heap, state["dad"])

\* Joe was renamed and then aged through the same store.
DisjointMergesCommuteWitness ==
    /\ DidSetState
    /\ budget = MaxOps - 2
    /\ last.store = "d1"
    /\ last.partial.value = PlainObject([k \in {"age"} |-> 2])
    /\ Snapshot(last.before, last.pre).ob["child"].sc = [k \in NamedKeys |-> IF k = "name" THEN 2 ELSE 1]
    /\ Snapshot(heap, state["dad"]).ob["child"].sc = [k \in NamedKeys |-> 2]
    /\ Snapshot(heap, initialState["dad"]).ob["child"].sc = JoeObject.sc

(***************************************************************************)
(* The two iterations                                                      *)
(***************************************************************************)
\* What a call leaves to be seen: whether it threw, the value of the parent
\* state, and the listener calls in order, each with the values it was
\* given.
Observed(r) ==
    [threw |-> r.threw,
     state |-> Snapshot(r.heap, r.root),
     invocations |-> [i \in 1..Len(r.notified) |->
                        [fn |-> r.notified[i].fn,
                         new |-> Snapshot(r.heap, r.notified[i].new),
                         prev |-> Snapshot(r.heap, r.notified[i].prev)]]]

Partials == {Literal(n) : n \in SmallNextStates} \cup {Birthday, Identity}

\* C29: the two iterations of the binder agree.  In every state a sequence
\* of calls through either store has led to, a setState call with a literal
\* value or with a pure updater (birthday, or state => state), with any
\* value of the replace flag, has the
\* same outcome through the closure-based store as through the class-based
\* store with the default setter: the same parent state, the same listener
\* calls with the same values in the same order, and it throws through one
\* exactly when it throws through the other.
IterationsAgree ==
    \A partial \in Partials : \A replace \in ReplaceFlags :
        (\/ Getter("d1", heap, state["dad"]) = Undefined
         \/ CanResolve(partial, heap[Getter("d1", heap, state["dad"])])) =>
            {Observed(r) : r \in {creatorSetState(heap, state["dad"], "d1", listeners["dad"],
                                                  partial, replace)}}
                = {Observed(r) : r \in {NibbleStoreSetState(heap, state["dad"], "k1",
                                                            listeners["dad"], partial, replace)}}

(***************************************************************************)
(* Stores over stores                                                      *)
(***************************************************************************)
\* The store over dad with the composed getter, for a store over the
\* derived store.
Composed(d) == IF d = "y1" THEN "z1" ELSE "z0"

\* The last call, made through the store y over the derived store, left
\* what the same call through the store with the composed getter would
\* have left from the state it found: the same parent state, the same
\* listener calls with the same values, thrown when that would throw.
ActedAsComposed(y) ==
    (DidSetState /\ last.store = y) =>
        {Observed(r) : r \in {creatorSetState(last.before, last.pre, Composed(y),
                                              listeners["dad"], last.partial, last.replace)}}
            = {[threw |-> last.threw,
                state |-> Snapshot(heap, state["dad"]),
                invocations |-> [i \in 1..Len(last.notified) |->
                                    [fn |-> last.notified[i].fn,
                                     new |-> Snapshot(heap, last.notified[i].new),
                                     prev |-> Snapshot(heap, last.notified[i].prev)]]]}

\* C28: derived stores compose.  A store built over a derived store,
\* nibble(nibble(P)(g1)())(g2)(), is observationally equivalent to
\* nibble(P)(s => g2(g1(s)))(): getState and getInitialState return the
\* same object, every setState call through it, with merge and with
\* replace, leaves the parent state and makes the listener calls that the
\* call through the composed store would, and its subscribers are given
\* the values the composed store's would be given; for the getters g2
\* child => child.inner and child => child.
NestedComposes ==
    \A y \in NestedStores :
        /\ getState(y) = getState(Composed(y))
        /\ getInitialState(y) = getInitialState(Composed(y))
        /\ ActedAsComposed(y)
        /\ \A i \in 1..Len(last.notified) :
              last.notified[i].store = y =>
                 /\ last.notified[i].new = getState(Composed(y))
                 /\ last.notified[i].prev = ChildBefore(Composed(y))

====
